---- MODULE Spec2Model ----
(***************************************************************************)
(* MacWinControl (RustApp/src-tauri): one peer of the input-sharing        *)
(* daemon, seen from inside.  The state is the peer's process-wide cells   *)
(* of network.rs (connection flags, write endpoint, control flags, edge    *)
(* lock, remote cursor, remote display registry), the local variables of   *)
(* the control loop start_mouse_tracking, the operating system's cursor    *)
(* and the wall clock.  The other peer, the user and the network are the   *)
(* environment: they choose the messages that arrive on the sessions, the  *)
(* cursor motions between ticks, and when connections open and close.      *)
(***************************************************************************)
EXTENDS Integers, Sequences, FiniteSets

VARIABLES
    IS_CONNECTED,            \* network.rs:25
    CONNECTED_TO,            \* network.rs:26   "None" or the peer's ip
    WRITE_STREAM,            \* network.rs:29   0 = None, k = write half of outbound connection k
    ACTIVE_CLIENT,           \* network.rs:32   TRUE = Some(_)
    IS_OUTGOING_CONNECTION,  \* network.rs:34
    CONTROL_ACTIVE,          \* network.rs:37
    BEING_CONTROLLED,        \* network.rs:38
    EDGE_LOCK_POS,           \* network.rs:41
    REMOTE_MOUSE_POS,        \* network.rs:43
    CONTROL_START_TIME,      \* network.rs:45
    REMOTE_EDGE,             \* network.rs:49
    REMOTE_SCREENS,          \* network.rs:19
    cursor,                  \* the pointer position the OS reports (input.rs get_mouse_position)
    now,                     \* the wall clock, in ms
    pc,                      \* where the control loop is: "sleep", "snap" (state read), "send" (awaiting a write), "panicked"
    snap,                    \* the control loop's snapshot of this tick (network.rs:795-799)
    pend,                    \* the write the control loop is suspended on, and what follows it
    last_pos,                \* network.rs:784
    inbound,                 \* number of accepted sessions whose reader task (handle_client) runs
    outOpen,                 \* outbound connections whose reader task still runs
    last_ctl,                \* the last control line the loop wrote on a write half: "none", "control_start", "control_end"
    started,                 \* the connections on whose write half a control_start has been written
    drop,                    \* "dropped": the dialed session ended while CONTROL_ACTIVE; "seen": and a tick began since; else "none"
    overflow,                \* what `now - start_time` (network.rs:893) does below zero: "unseen" until it happens, then "wraps"
    wire,                    \* per session ("in" accepted, "out" dialed): the bytes the peer wrote that no read has returned yet
    sent,                    \* per session: the lines the peer wrote, in order
    handled,                 \* per session: the messages handle_message / handle_message_simple were called with, in order
    in_pending,              \* handle_client: the pieces of data.lines() of the current read not yet looked at (network.rs:311-316)
    out_buf,                 \* connect_to_server: the bytes BufReader holds of a line not yet complete (network.rs:551-555)
    pongs,                   \* per session: the pongs written back to the peer
    DISCOVERED_PEERS,        \* network.rs:22
    udp_buffer,              \* start_udp_listener: the datagram of the last recv_from (network.rs:694-698), as its '|'-separated fields
    dialing,                 \* per target ip: the spawned tasks whose TcpStream::connect has not returned (network.rs:510)
    finishing,               \* the dial tasks past the hello, whose second connect has not returned (network.rs:580)
    conns,                   \* the outbound connections established so far
    peer_listening,          \* the other peer's start_server has bound its listener
    locks,                   \* per mutex ("write_half": the one in WRITE_STREAM, "client": the accepted stream's): the task holding it, or "free"
    gui,                     \* the send_layout_sync command: "idle", "wait" (at writer.lock().await), "write" (holding the lock, in write_all)
    layout_call,             \* the last set_screen_layout call: its argument and its result
    input_call,              \* the last send_key_to_remote / send_click_to_remote call: the function, CONTROL_ACTIVE as it read it, whether it wrote a line
    move_arg,                \* the point of the last crate::input::move_mouse call of a message handler, << >> before the first
    peer,                    \* the other peer's CONTROL_ACTIVE and BEING_CONTROLLED
    to_peer,                 \* the lines written on the write half that the other peer's reader has not handled yet
    from_peer,               \* the control lines the other peer wrote that this peer's reader has not handled yet
    key_task,                \* the send_key_to_remote / send_click_to_remote call past its reads and waiting at writer.lock().await: the line it will write, or "none"
    hide_count,              \* how many hide_cursor calls no show_cursor has matched yet (input.rs:33-49)
    udp_task                 \* start_udp_listener: "recv" while its loop runs, "ended" after recv_from returned Err (network.rs:695)

vars == << IS_CONNECTED, CONNECTED_TO, WRITE_STREAM, ACTIVE_CLIENT, IS_OUTGOING_CONNECTION,
           CONTROL_ACTIVE, BEING_CONTROLLED, EDGE_LOCK_POS, REMOTE_MOUSE_POS,
           CONTROL_START_TIME, REMOTE_EDGE, REMOTE_SCREENS, cursor, now, pc, snap, pend,
           last_pos, inbound, outOpen, last_ctl, started, drop, overflow,
           wire, sent, handled, in_pending, out_buf, pongs,
           DISCOVERED_PEERS, udp_buffer, dialing, finishing, conns, peer_listening,
           locks, gui, layout_call, input_call, move_arg, peer, to_peer, from_peer,
           key_task, hide_count, udp_task >>

\* The process-wide cells.
cellvars == << IS_CONNECTED, CONNECTED_TO, WRITE_STREAM, ACTIVE_CLIENT, IS_OUTGOING_CONNECTION,
               CONTROL_ACTIVE, BEING_CONTROLLED, EDGE_LOCK_POS, REMOTE_MOUSE_POS,
               CONTROL_START_TIME, REMOTE_EDGE, REMOTE_SCREENS >>

\* The control loop, the pointer, the clock and what is observed of them.
loopvars == << cursor, now, pc, snap, pend, last_pos, last_ctl, started, drop, overflow,
               move_arg >>

\* The byte level of the sessions.
wirevars == << wire, sent, handled, in_pending, out_buf, pongs >>

\* Discovery and the dial tasks.
discvars == << DISCOVERED_PEERS, udp_buffer, dialing, finishing, conns, peer_listening >>

\* The tokio mutexes and the GUI's sender.
lockvars == << locks, gui >>

\* What the commands of the GUI return.
uivars == << layout_call, input_call >>

\* The other peer's control flags and the control lines in flight between
\* the two peers.
pairvars == << peer, to_peer, from_peer >>

\* The platform's side: the key and click hooks' call in flight, the cursor's
\* visibility and the discovery listener's task.
sysvars == << key_task, hide_count, udp_task >>

\* The sessions' bytes, discovery, the mutexes, the commands, the other peer
\* and the platform's side.
sidevars == << wirevars, discvars, lockvars, uivars, pairvars, sysvars >>

\* What the steps of the control loop, the user and the clock leave alone.
netvars == << sidevars, move_arg >>

(***************************************************************************)
(* Bounds of the model.                                                    *)
(***************************************************************************)
MaxClock == 4       \* clock steps of TimeStep ms
MaxInbound == 1     \* inbound sessions open at the same time
MaxLines == 2       \* lines the peer writes on the sessions of one kind
MaxDials == 2       \* dial tasks in flight at the same time
MaxFlight == 2      \* control lines in flight from one peer to the other

(***************************************************************************)
(* Program constants.                                                      *)
(***************************************************************************)
edge_threshold == 10
EntryInset == 10
CooldownMs == 500
ReturnBand == 20
ReturnInset == 50
SensitivityNum == 3
SensitivityDen == 2
DefaultMaxX == 1920
DefaultMaxY == 1080

TimeStep == CooldownMs

\* The wall clock when the program starts, in ms since the epoch.
StartClock == TimeStep

PeerIp == "10.0.0.3"
PeerName == "B"

\* local_ip_address::local_ip() at start-up, and this host's computer name.
LocalIp == "10.0.0.5"
LocalName == "A"

DISCOVERY_MAGIC == "MACWINCTRL"

(***************************************************************************)
(* Displays.  The local host has its primary display at the origin and a   *)
(* taller second one to its left; get_all_screens returns them sorted by   *)
(* x.  The right edge of the desktop lies on the primary display, the      *)
(* other three edges on the second one.                                    *)
(***************************************************************************)
LocalScreens ==
    << [x |-> -1280, y |-> -200, width |-> 1280, height |-> 1480],
       [x |-> 0, y |-> 0, width |-> 1920, height |-> 1080] >>

\* The display lists the other peer may advertise in a hello.
RemoteSingle == << [x |-> 0, y |-> 0, width |-> 1920, height |-> 1080] >>
RemoteStaggered ==
    << [x |-> 0, y |-> 0, width |-> 1920, height |-> 1080],
       [x |-> 1920, y |-> 200, width |-> 1280, height |-> 720] >>
RemoteLayouts == { RemoteSingle, RemoteStaggered }

SetMin(S) == CHOOSE m \in S : \A n \in S : m <= n
SetMax(S) == CHOOSE m \in S : \A n \in S : m >= n

\* screens.iter().map(|s| s.x).min().unwrap_or(0) and its three companions
MinX(screens) == IF screens = << >> THEN 0
                 ELSE SetMin({ screens[i].x : i \in DOMAIN screens })
MaxX(screens) == IF screens = << >> THEN DefaultMaxX
                 ELSE SetMax({ screens[i].x + screens[i].width : i \in DOMAIN screens })
MinY(screens) == IF screens = << >> THEN 0
                 ELSE SetMin({ screens[i].y : i \in DOMAIN screens })
MaxY(screens) == IF screens = << >> THEN DefaultMaxY
                 ELSE SetMax({ screens[i].y + screens[i].height : i \in DOMAIN screens })

\* i32::clamp
Clamp(v, lo, hi) == IF v < lo THEN lo ELSE IF v > hi THEN hi ELSE v

\* `as i32` of an f64 quotient: truncation toward zero
TruncDiv(a, b) == IF a >= 0 THEN a \div b ELSE -((-a) \div b)

\* a point lies in a display rectangle
InScreen(p, s) == /\ s.x <= p[1] /\ p[1] < s.x + s.width
                  /\ s.y <= p[2] /\ p[2] < s.y + s.height
InSomeScreen(p, screens) == \E i \in DOMAIN screens : InScreen(p, screens[i])
InBox(p, screens) == /\ MinX(screens) <= p[1] /\ p[1] <= MaxX(screens) - 1
                     /\ MinY(screens) <= p[2] /\ p[2] <= MaxY(screens) - 1

(***************************************************************************)
(* Platform I/O (input.rs).  The operating system keeps the pointer on the *)
(* virtual desktop: SetCursorPos / a posted mouse-moved event with a point *)
(* outside it leaves the pointer at the nearest point of the desktop.      *)
(***************************************************************************)
move_mouse(p) ==
    << Clamp(p[1], MinX(LocalScreens), MaxX(LocalScreens) - 1),
       Clamp(p[2], MinY(LocalScreens), MaxY(LocalScreens) - 1) >>

\* Where the user may leave the pointer: the middle of the second display and
\* the outermost pixel of each edge of the desktop.
UserPoints ==
    { <<-640, 540>>, <<1919, 540>>, <<-1279, 540>>, <<-640, -199>>, <<-640, 1279>> }

\* How far the user may push the pointer off the edge lock in one tick.  The
\* distance is odd, so that its scaling by 1.5 has a fraction to cut.
NudgeStep == 301
Nudges == { << NudgeStep, 0 >>, << -NudgeStep, 0 >>, << 0, NudgeStep >>, << 0, -NudgeStep >> }

(***************************************************************************)
(* Messages (network.rs:97-134), with the fields each type carries.        *)
(***************************************************************************)
MsgPoints == { <<-640, 540>> }

Hello(name, screens) == [type |-> "hello", name |-> name, screens |-> screens]
ControlMsg(t, x, y) == [type |-> t, x |-> x, y |-> y]
MouseMove(x, y) == [type |-> "mouse_move", x |-> x, y |-> y]

\* What the other peer may write on a session.
Hellos == { Hello(PeerName, l) : l \in RemoteLayouts }

PeerMessages ==
    Hellos
    \cup { ControlMsg("control_start", p[1], p[2]) : p \in MsgPoints }
    \cup { ControlMsg("control_end", 0, 0) }
    \cup { MouseMove(p[1], p[2]) : p \in MsgPoints }

\* The names under which hellos arrive, and the points a peer may put in a
\* control_start or a mouse_move: on a local display, inside the bounding box
\* of the local desktop but on no display, and outside the box.
PeerNames == { PeerName, "C" }
RecvPoints == { << -640, 540 >>, << 1000, -100 >>, << 5000, 5000 >> }

RecvHellos == { Hello(n, l) : n \in PeerNames, l \in RemoteLayouts }

RecvMessages ==
    RecvHellos
    \cup { ControlMsg("control_start", p[1], p[2]) : p \in RecvPoints }
    \cup { ControlMsg("control_end", 0, 0) }
    \cup { MouseMove(p[1], p[2]) : p \in RecvPoints }

NoSnap == [is_connected |-> FALSE, being_controlled |-> FALSE, control_active |-> FALSE,
           mx |-> 0, my |-> 0]
NoPend == [msg |-> "none", x |-> 0, y |-> 0, writer |-> 0, moves |-> << >>, pin |-> FALSE]

ValidEdges == { "right", "left", "top", "bottom" }

\* The two kinds of session: accepted by start_server, dialed by
\* connect_to_server.
Sessions == { "in", "out" }

\* The two tokio mutexes around sockets: the one around the write half of the
\* dialed connection (WRITE_STREAM) and the one around the accepted stream
\* (ACTIVE_CLIENT, handle_client's `client`).
Mutexes == { "write_half", "client" }

\* format!("{}|{}|{}|{}", DISCOVERY_MAGIC, computer_name, local_ip, computer_type)
\* followed by message.split('|'); `name` is the name cut at its bars.
Beacon(name, ip, type) == << DISCOVERY_MAGIC >> \o name \o << ip, type >>

\* The datagrams that may arrive on the discovery port: the other peer's
\* beacon, this host's own beacon coming back, this host's own beacon were its
\* name "A|1", a beacon of another program, and a cut one.
PeerBeacon == Beacon(<< PeerName >>, PeerIp, "windows")
OwnBeacon == Beacon(<< LocalName >>, LocalIp, "mac")
Datagrams ==
    { PeerBeacon, OwnBeacon,
      Beacon(<< LocalName, "1" >>, LocalIp, "mac"),
      << "OTHERAPP", PeerName, PeerIp, "windows" >>,
      << DISCOVERY_MAGIC, PeerName, PeerIp >> }

\* Every text that can stand where a beacon's ip is looked for.
DialTargets == { d[3] : d \in { e \in Datagrams : Len(e) >= 4 } }

Init ==
    /\ IS_CONNECTED = FALSE
    /\ CONNECTED_TO = "None"
    /\ WRITE_STREAM = 0
    /\ ACTIVE_CLIENT = FALSE
    /\ IS_OUTGOING_CONNECTION = FALSE
    /\ CONTROL_ACTIVE = FALSE
    /\ BEING_CONTROLLED = FALSE
    /\ EDGE_LOCK_POS = <<0, 0>>
    /\ REMOTE_MOUSE_POS = <<0, 0>>
    /\ CONTROL_START_TIME = 0
    /\ REMOTE_EDGE = "right"
    /\ REMOTE_SCREENS = << >>
    /\ cursor = <<-640, 540>>
    /\ now = StartClock
    /\ pc = "sleep"
    /\ snap = NoSnap
    /\ pend = NoPend
    /\ last_pos = <<0, 0>>
    /\ inbound = 0
    /\ outOpen = {}
    /\ last_ctl = "none"
    /\ started = {}
    /\ drop = "none"
    /\ overflow = "unseen"
    /\ wire = [s \in Sessions |-> << >>]
    /\ sent = [s \in Sessions |-> << >>]
    /\ handled = [s \in Sessions |-> << >>]
    /\ in_pending = << >>
    /\ out_buf = << >>
    /\ pongs = [s \in Sessions |-> 0]
    /\ DISCOVERED_PEERS = << >>
    /\ udp_buffer = << >>
    /\ dialing = [t \in DialTargets |-> 0]
    /\ finishing = 0
    /\ conns = 0
    /\ peer_listening = FALSE
    /\ locks = [m \in Mutexes |-> "free"]
    /\ gui = "idle"
    /\ layout_call = [arg |-> "none", result |-> "none"]
    /\ input_call = [fn |-> "none", active |-> FALSE, wrote |-> "nothing"]
    /\ move_arg = << >>
    /\ peer = [control_active |-> FALSE, being_controlled |-> FALSE]
    /\ to_peer = << >>
    /\ from_peer = << >>
    /\ key_task = "none"
    /\ hide_count = 0
    /\ udp_task = "recv"

(***************************************************************************)
(* Session layer.                                                          *)
(***************************************************************************)
\* An accept that puts the accepted stream in the place of the write endpoint:
\* a faulty variant, against which C33 is tested.
WriteEndReplaced(write_stream) == 0

\* The write endpoint after an accept: start_server stores the accepted stream
\* in ACTIVE_CLIENT, and only when there is no outgoing connection; it has no
\* assignment to WRITE_STREAM.
WriteEndOnAccept(write_stream) == write_stream

\* start_server: one iteration of the accept loop.
Accept ==
    /\ inbound < MaxInbound
    /\ inbound' = inbound + 1
    /\ ACTIVE_CLIENT' = IF ~IS_OUTGOING_CONNECTION THEN TRUE ELSE ACTIVE_CLIENT
    /\ WRITE_STREAM' = WriteEndOnAccept(WRITE_STREAM)
    /\ IS_CONNECTED' = TRUE
    /\ CONNECTED_TO' = PeerIp
    /\ UNCHANGED << IS_OUTGOING_CONNECTION, CONTROL_ACTIVE,
                    BEING_CONTROLLED, EDGE_LOCK_POS, REMOTE_MOUSE_POS,
                    CONTROL_START_TIME, REMOTE_EDGE, REMOTE_SCREENS, cursor, now, pc,
                    snap, pend, last_pos, outOpen, last_ctl, started, drop, overflow >>
    /\ UNCHANGED netvars

\* handle_client: read returns 0 (or an error): the reader task ends and drops
\* its guard of the stream's mutex.
InboundClose ==
    /\ inbound > 0
    /\ inbound' = inbound - 1
    /\ locks' = [locks EXCEPT !["client"] = IF @ = "in_reader" THEN "free" ELSE @]
    /\ UNCHANGED << IS_CONNECTED, CONNECTED_TO, WRITE_STREAM, ACTIVE_CLIENT,
                    IS_OUTGOING_CONNECTION, CONTROL_ACTIVE, BEING_CONTROLLED,
                    EDGE_LOCK_POS, REMOTE_MOUSE_POS, CONTROL_START_TIME, REMOTE_EDGE,
                    REMOTE_SCREENS, cursor, now, pc, snap, pend, last_pos, outOpen,
                    last_ctl, started, drop, overflow >>
    /\ UNCHANGED << wirevars, discvars, gui, uivars, pairvars, sysvars, move_arg >>

\* StoreScreens without the retain: a faulty variant, against which C26 is
\* tested.
StoreAppend(remote, name, screens) ==
    remote \o [i \in DOMAIN screens |->
                 [computer_name |-> name, x |-> screens[i].x, y |-> screens[i].y,
                  width |-> screens[i].width, height |-> screens[i].height]]

\* StoreScreens that stores nothing: a faulty variant, against which C16 is
\* tested.
StoreNothing(remote, name, screens) == remote

\* remote.retain(|s| s.computer_name != name) followed by the pushes
StoreScreens(remote, name, screens) ==
    SelectSeq(remote, LAMBDA s : s.computer_name # name)
    \o [i \in DOMAIN screens |->
          [computer_name |-> name, x |-> screens[i].x, y |-> screens[i].y,
           width |-> screens[i].width, height |-> screens[i].height]]

\* The target of the move on control_start in handle_message: clamped to the
\* local bounding box.
ControlStartTarget(x, y) ==
    << Clamp(x, MinX(LocalScreens), MaxX(LocalScreens) - 1),
       Clamp(y, MinY(LocalScreens), MaxY(LocalScreens) - 1) >>

\* The target of the move on control_start in handle_message_simple.
ControlStartTargetSimple(x, y) == << x, y >>

\* The test of mouse_move that lets every move through: a faulty variant,
\* against which C23 is tested.
MoveAlways(being_controlled) == TRUE

\* `if being_controlled { move_mouse(x, y) }` of both handlers.
MoveApplies(being_controlled) == being_controlled

\* The effect of one message on the shared cells; `clamps` tells the two
\* handlers apart: handle_message clamps the target of control_start,
\* handle_message_simple does not.
Handle(msg, clamps) ==
    /\ REMOTE_SCREENS' = IF msg.type = "hello"
                           THEN StoreScreens(REMOTE_SCREENS, msg.name, msg.screens)
                           ELSE REMOTE_SCREENS
    /\ BEING_CONTROLLED' = CASE msg.type = "control_start" -> TRUE
                             [] msg.type = "control_end" -> FALSE
                             [] OTHER -> BEING_CONTROLLED
    /\ cursor' = CASE msg.type = "control_start" ->
                        move_mouse(IF clamps THEN ControlStartTarget(msg.x, msg.y)
                                   ELSE ControlStartTargetSimple(msg.x, msg.y))
                   [] msg.type = "mouse_move" /\ MoveApplies(BEING_CONTROLLED) ->
                        move_mouse(<< msg.x, msg.y >>)
                   [] OTHER -> cursor
    /\ move_arg' = CASE msg.type = "control_start" ->
                          IF clamps THEN ControlStartTarget(msg.x, msg.y)
                          ELSE ControlStartTargetSimple(msg.x, msg.y)
                     [] msg.type = "mouse_move" /\ MoveApplies(BEING_CONTROLLED) -> << msg.x, msg.y >>
                     [] OTHER -> move_arg

\* handle_message: a message read by the reader of an accepted session.
InboundRecv(msg) ==
    /\ inbound > 0
    /\ Handle(msg, TRUE)
    /\ UNCHANGED << IS_CONNECTED, CONNECTED_TO, WRITE_STREAM, ACTIVE_CLIENT,
                    IS_OUTGOING_CONNECTION, CONTROL_ACTIVE, EDGE_LOCK_POS,
                    REMOTE_MOUSE_POS, CONTROL_START_TIME, REMOTE_EDGE, now, pc, snap,
                    pend, last_pos, inbound, outOpen, last_ctl, started, drop, overflow >>
    /\ UNCHANGED sidevars

\* handle_message_simple: a message read by the reader of a dialed session.
OutboundRecv(msg) ==
    /\ outOpen # {}
    /\ Handle(msg, FALSE)
    /\ UNCHANGED << IS_CONNECTED, CONNECTED_TO, WRITE_STREAM, ACTIVE_CLIENT,
                    IS_OUTGOING_CONNECTION, CONTROL_ACTIVE, EDGE_LOCK_POS,
                    REMOTE_MOUSE_POS, CONTROL_START_TIME, REMOTE_EDGE, now, pc, snap,
                    pend, last_pos, inbound, outOpen, last_ctl, started, drop, overflow >>
    /\ UNCHANGED sidevars

\* start_udp_listener accepts a beacon of the peer while there is no write
\* stream and spawns connect_to_server, which succeeds: the write half of the
\* new connection becomes the write endpoint, hello is written on it, the read
\* loop is spawned, and the spawning task records the connection
\* (network.rs:743-747).  The steps of the dial are taken together.
Dial ==
    /\ WRITE_STREAM = 0
    /\ WRITE_STREAM' = 1
    /\ IS_OUTGOING_CONNECTION' = TRUE
    /\ outOpen' = outOpen \cup { 1 }
    /\ IS_CONNECTED' = TRUE
    /\ CONNECTED_TO' = PeerIp
    /\ UNCHANGED << ACTIVE_CLIENT, CONTROL_ACTIVE, BEING_CONTROLLED, EDGE_LOCK_POS,
                    REMOTE_MOUSE_POS, CONTROL_START_TIME, REMOTE_EDGE, REMOTE_SCREENS,
                    cursor, now, pc, snap, pend, last_pos, inbound, last_ctl, started,
                    drop, overflow >>
    /\ UNCHANGED netvars

\* The read loop of a dialed session sees EOF or a read error and ends.
OutboundClose(c) ==
    /\ c \in outOpen
    /\ outOpen' = outOpen \ { c }
    /\ drop' = IF CONTROL_ACTIVE /\ c = WRITE_STREAM THEN "dropped" ELSE drop
    /\ UNCHANGED << IS_CONNECTED, CONNECTED_TO, WRITE_STREAM, ACTIVE_CLIENT,
                    IS_OUTGOING_CONNECTION, CONTROL_ACTIVE, BEING_CONTROLLED,
                    EDGE_LOCK_POS, REMOTE_MOUSE_POS, CONTROL_START_TIME, REMOTE_EDGE,
                    REMOTE_SCREENS, cursor, now, pc, snap, pend, last_pos, inbound,
                    last_ctl, started, overflow >>
    /\ UNCHANGED netvars

(***************************************************************************)
(* The byte level of a session.  A line is the serde_json text of a        *)
(* message, some other text, or bytes that are not UTF-8, followed by      *)
(* '\n'.  TCP delivers the bytes in order and cuts them into reads where   *)
(* it likes: a line travels as three pieces, the two halves of its text    *)
(* and its '\n', and a read returns any number of the pieces in flight.    *)
(***************************************************************************)
NoMsg == [type |-> "none"]
Ping == [type |-> "ping"]

\* The displays of the other peer, as its get_all_screens lists them.
PeerScreens == RemoteStaggered

JsonLine(m) == [enc |-> "json", msg |-> m]
TextLine == [enc |-> "text", msg |-> NoMsg]
BytesLine == [enc |-> "bytes", msg |-> NoMsg]

\* What the other peer may write as one line.
WireLines == { JsonLine(Ping), JsonLine(Hello(PeerName, PeerScreens)), TextLine, BytesLine }

\* serde_json::to_string(&msg) + "\n", as bytes on the wire; part 3 is the '\n'.
Encode(l) == << [line |-> l, part |-> 1], [line |-> l, part |-> 2], [line |-> l, part |-> 3] >>

\* str::lines of the bytes of one read: the text before each '\n', and the
\* text after the last one when there is any.
RECURSIVE Lines(_, _)
Lines(data, cur) ==
    IF data = << >>
    THEN IF cur = << >> THEN << >> ELSE << cur >>
    ELSE IF Head(data).part = 3
         THEN << cur >> \o Lines(Tail(data), << >>)
         ELSE Lines(Tail(data), Append(cur, Head(data)))

\* serde_json::from_str::<Message>: Ok(msg) for the whole text of a line that
\* was the JSON of a message, Err (NoMsg) for anything else.
FromStr(text) ==
    IF /\ Len(text) = 2
       /\ text[1].part = 1 /\ text[2].part = 2
       /\ text[1].line = text[2].line
       /\ text[1].line.enc = "json"
    THEN text[1].line.msg
    ELSE NoMsg

\* The index of the first '\n' of a byte sequence, 0 when it has none.
FirstNL(data) ==
    IF \E i \in DOMAIN data : data[i].part = 3
    THEN CHOOSE i \in DOMAIN data : data[i].part = 3 /\ \A j \in 1..(i - 1) : data[j].part # 3
    ELSE 0

\* String::from_utf8 as read_line applies it to the bytes of a line.
ValidUtf8(data) == \A i \in DOMAIN data : data[i].line.enc # "bytes"

\* The other peer writes a line on a session.
PeerWrite(s, l) ==
    /\ s = "in" => inbound > 0
    /\ s = "out" => outOpen # {}
    /\ Len(sent[s]) < MaxLines
    /\ wire' = [wire EXCEPT ![s] = @ \o Encode(l)]
    /\ sent' = [sent EXCEPT ![s] = Append(@, l)]
    /\ UNCHANGED << cellvars, loopvars, inbound, outOpen, handled, in_pending, out_buf, pongs >>
    /\ UNCHANGED << discvars, lockvars, uivars >>
    /\ UNCHANGED pairvars
    /\ UNCHANGED sysvars

\* handle_client: the top of the loop, client.lock().await returns; the reader
\* holds the stream's mutex for as long as stream.read waits for bytes.
InLock ==
    /\ inbound > 0
    /\ in_pending = << >>
    /\ locks["client"] = "free"
    /\ locks' = [locks EXCEPT !["client"] = "in_reader"]
    /\ UNCHANGED << cellvars, loopvars, inbound, outOpen, wirevars, discvars, gui, uivars >>
    /\ UNCHANGED pairvars
    /\ UNCHANGED sysvars

\* handle_client: stream.read returns the first k bytes in flight and the
\* mutex is released; the loop over data.lines() begins.
InRead(k) ==
    /\ inbound > 0
    /\ in_pending = << >>
    /\ locks["client"] = "in_reader"
    /\ locks' = [locks EXCEPT !["client"] = "free"]
    /\ k \in 1..Len(wire["in"])
    /\ in_pending' = Lines(SubSeq(wire["in"], 1, k), << >>)
    /\ wire' = [wire EXCEPT !["in"] = SubSeq(@, k + 1, Len(@))]
    /\ UNCHANGED << cellvars, loopvars, inbound, outOpen, sent, handled, out_buf, pongs >>
    /\ UNCHANGED << discvars, gui, uivars >>
    /\ UNCHANGED pairvars
    /\ UNCHANGED sysvars

\* handle_client: one turn of the loop over data.lines(): the text is parsed
\* and, when it is a message, handled; handle_message answers a ping with a
\* pong on the same stream.
InHandle ==
    /\ in_pending # << >>
    /\ LET msg == FromStr(Head(in_pending))
       IN  IF msg # NoMsg
           THEN /\ msg.type = "ping" => locks["client"] = "free"
                /\ Handle(msg, TRUE)
                /\ handled' = [handled EXCEPT !["in"] = Append(@, msg)]
                /\ pongs' = [pongs EXCEPT !["in"] = IF msg.type = "ping" THEN @ + 1 ELSE @]
           ELSE UNCHANGED << REMOTE_SCREENS, BEING_CONTROLLED, cursor, move_arg, handled, pongs >>
    /\ in_pending' = Tail(in_pending)
    /\ UNCHANGED << IS_CONNECTED, CONNECTED_TO, WRITE_STREAM, ACTIVE_CLIENT,
                    IS_OUTGOING_CONNECTION, CONTROL_ACTIVE, EDGE_LOCK_POS,
                    REMOTE_MOUSE_POS, CONTROL_START_TIME, REMOTE_EDGE, now, pc, snap,
                    pend, last_pos, inbound, outOpen, last_ctl, started, drop, overflow,
                    wire, sent, out_buf, locks >>
    /\ UNCHANGED << discvars, gui, uivars >>
    /\ UNCHANGED pairvars
    /\ UNCHANGED sysvars

\* connect_to_server's read loop: read_line has no whole line yet and the
\* BufReader takes the first k bytes in flight.
OutFill(k) ==
    /\ outOpen # {}
    /\ FirstNL(out_buf) = 0
    /\ k \in 1..Len(wire["out"])
    /\ out_buf' = out_buf \o SubSeq(wire["out"], 1, k)
    /\ wire' = [wire EXCEPT !["out"] = SubSeq(@, k + 1, Len(@))]
    /\ UNCHANGED << cellvars, loopvars, inbound, outOpen, sent, handled, in_pending, pongs >>
    /\ UNCHANGED << discvars, lockvars, uivars >>
    /\ UNCHANGED pairvars
    /\ UNCHANGED sysvars

\* connect_to_server's read loop: read_line returns.  Bytes that are not UTF-8
\* make it return Err and the loop breaks; otherwise the line is parsed and,
\* when it is a message, handled by handle_message_simple, which has no arm
\* for ping.
OutReadLine(c) ==
    /\ c \in outOpen
    /\ FirstNL(out_buf) # 0
    /\ LET n == FirstNL(out_buf)
           line == SubSeq(out_buf, 1, n)
           msg == FromStr(SubSeq(out_buf, 1, n - 1))
       IN  IF ~ValidUtf8(line)
           THEN /\ outOpen' = outOpen \ { c }
                /\ drop' = IF CONTROL_ACTIVE /\ c = WRITE_STREAM THEN "dropped" ELSE drop
                /\ out_buf' = << >>
                /\ UNCHANGED << REMOTE_SCREENS, BEING_CONTROLLED, cursor, move_arg, handled >>
           ELSE /\ out_buf' = SubSeq(out_buf, n + 1, Len(out_buf))
                /\ UNCHANGED << outOpen, drop >>
                /\ IF msg # NoMsg
                   THEN /\ Handle(msg, FALSE)
                        /\ handled' = [handled EXCEPT !["out"] = Append(@, msg)]
                   ELSE UNCHANGED << REMOTE_SCREENS, BEING_CONTROLLED, cursor, move_arg, handled >>
    /\ UNCHANGED << IS_CONNECTED, CONNECTED_TO, WRITE_STREAM, ACTIVE_CLIENT,
                    IS_OUTGOING_CONNECTION, CONTROL_ACTIVE, EDGE_LOCK_POS,
                    REMOTE_MOUSE_POS, CONTROL_START_TIME, REMOTE_EDGE, now, pc, snap,
                    pend, last_pos, inbound, last_ctl, started, overflow,
                    wire, sent, in_pending, pongs >>
    /\ UNCHANGED << discvars, lockvars, uivars >>
    /\ UNCHANGED pairvars
    /\ UNCHANGED sysvars

(***************************************************************************)
(* Discovery: start_udp_broadcaster, start_udp_listener and the dial tasks *)
(* the listener spawns.  A beacon is the text MACWINCTRL|name|ip|type; it  *)
(* is kept here as the list of its fields between the bars, so a computer  *)
(* name with a bar in it makes a beacon of five fields.                    *)
(***************************************************************************)
\* The test of a datagram without the look at its tag: a faulty variant,
\* against which C37 is tested.
AnyTag(parts) == Len(parts) >= 4

\* parts.len() >= 4 && parts[0] == DISCOVERY_MAGIC (network.rs:700)
IsBeacon(parts) == Len(parts) >= 4 /\ parts[1] = DISCOVERY_MAGIC

\* `peer_ip == local_ip` with the answer always no: a faulty variant, against
\* which C13 is tested.
NeverOwn(peer_ip, local_ip) == FALSE

\* Ignore our own broadcasts (network.rs:708).
IsOwnBeacon(peer_ip, local_ip) == peer_ip = local_ip

\* Discover without the search for the ip: every accepted beacon is pushed.  A
\* faulty variant, against which C36 is tested.
DiscoverPush(peers, peer_name, peer_ip, peer_type, secs) ==
    Append(peers, [name |-> peer_name, ip |-> peer_ip, computer_type |-> peer_type,
                   last_seen |-> secs])

\* peers.iter_mut().find(|p| p.ip == peer_ip): refresh last_seen, or push.
Discover(peers, peer_name, peer_ip, peer_type, secs) ==
    IF \E i \in DOMAIN peers : peers[i].ip = peer_ip
    THEN [i \in DOMAIN peers |->
            IF i = (CHOOSE j \in DOMAIN peers :
                        peers[j].ip = peer_ip /\ \A k \in 1..(j - 1) : peers[k].ip # peer_ip)
            THEN [peers[i] EXCEPT !.last_seen = secs]
            ELSE peers[i]]
    ELSE Append(peers, [name |-> peer_name, ip |-> peer_ip, computer_type |-> peer_type,
                        last_seen |-> secs])

\* The number of dial tasks whose first connect has not returned.
RECURSIVE Tasks(_, _)
Tasks(d, T) ==
    IF T = {} THEN 0
    ELSE LET t == CHOOSE u \in T : TRUE IN d[t] + Tasks(d, T \ { t })

InFlight == Tasks(dialing, DialTargets)

\* start_udp_listener: one turn of the receive loop, with datagram d.
UdpRecv(d) ==
    /\ udp_task = "recv"
    /\ udp_buffer' = d
    /\ IF IsBeacon(d) /\ ~IsOwnBeacon(d[3], LocalIp)
       THEN /\ DISCOVERED_PEERS' = Discover(DISCOVERED_PEERS, d[2], d[3], d[4], now \div 1000)
            /\ IF WRITE_STREAM = 0
               THEN /\ InFlight < MaxDials
                    /\ dialing' = [dialing EXCEPT ![d[3]] = @ + 1]
               ELSE UNCHANGED dialing
       ELSE UNCHANGED << DISCOVERED_PEERS, dialing >>
    /\ UNCHANGED << cellvars, loopvars, inbound, outOpen, wirevars, finishing, conns,
                    peer_listening >>
    /\ UNCHANGED << lockvars, uivars >>
    /\ UNCHANGED pairvars
    /\ UNCHANGED sysvars

\* A dial task: TcpStream::connect(t) returns Ok.  The write half becomes the
\* write endpoint, hello is written on it, the read loop is spawned
\* (network.rs:510-577); the other peer's handle_client answers the accept
\* with its hello.  The task goes on to its second connect.
ConnectDone(t) ==
    /\ dialing[t] > 0
    /\ t = PeerIp /\ peer_listening
    /\ dialing' = [dialing EXCEPT ![t] = @ - 1]
    /\ conns' = conns + 1
    /\ WRITE_STREAM' = conns + 1
    /\ IS_OUTGOING_CONNECTION' = TRUE
    /\ outOpen' = outOpen \cup { conns + 1 }
    /\ wire' = [wire EXCEPT !["out"] = @ \o Encode(JsonLine(Hello(PeerName, PeerScreens)))]
    /\ sent' = [sent EXCEPT !["out"] = Append(@, JsonLine(Hello(PeerName, PeerScreens)))]
    /\ finishing' = finishing + 1
    /\ UNCHANGED << IS_CONNECTED, CONNECTED_TO, ACTIVE_CLIENT, CONTROL_ACTIVE,
                    BEING_CONTROLLED, EDGE_LOCK_POS, REMOTE_MOUSE_POS, CONTROL_START_TIME,
                    REMOTE_EDGE, REMOTE_SCREENS, loopvars, inbound, handled, in_pending,
                    out_buf, pongs, DISCOVERED_PEERS, udp_buffer, peer_listening >>
    /\ UNCHANGED << lockvars, uivars >>
    /\ UNCHANGED pairvars
    /\ UNCHANGED sysvars

\* A dial task: TcpStream::connect(t) returns Err (nothing listens at t) and
\* the task ends (network.rs:748-750).
DialFail(t) ==
    /\ dialing[t] > 0
    /\ ~(t = PeerIp /\ peer_listening)
    /\ dialing' = [dialing EXCEPT ![t] = @ - 1]
    /\ UNCHANGED << cellvars, loopvars, inbound, outOpen, wirevars, DISCOVERED_PEERS,
                    udp_buffer, finishing, conns, peer_listening >>
    /\ UNCHANGED << lockvars, uivars >>
    /\ UNCHANGED pairvars
    /\ UNCHANGED sysvars

\* A dial task: the second connect returns, connect_to_server returns Ok and
\* the task records the connection (network.rs:580-581, 743-747).
DialReturn ==
    /\ finishing > 0
    /\ finishing' = finishing - 1
    /\ IS_CONNECTED' = TRUE
    /\ CONNECTED_TO' = PeerIp
    /\ UNCHANGED << WRITE_STREAM, ACTIVE_CLIENT, IS_OUTGOING_CONNECTION, CONTROL_ACTIVE,
                    BEING_CONTROLLED, EDGE_LOCK_POS, REMOTE_MOUSE_POS, CONTROL_START_TIME,
                    REMOTE_EDGE, REMOTE_SCREENS, loopvars, inbound, outOpen, wirevars,
                    DISCOVERED_PEERS, udp_buffer, dialing, conns, peer_listening >>
    /\ UNCHANGED << lockvars, uivars >>
    /\ UNCHANGED pairvars
    /\ UNCHANGED sysvars

\* A dial task: TcpStream::connect(t) returns Ok, the write half becomes the
\* write endpoint (network.rs:510-520), and the write of hello fails (the
\* connection was reset): `?` returns Err from connect_to_server before the
\* read loop is spawned, and the task ends (network.rs:546, 748-750).
HelloFail(t) ==
    /\ dialing[t] > 0
    /\ t = PeerIp /\ peer_listening
    /\ dialing' = [dialing EXCEPT ![t] = @ - 1]
    /\ conns' = conns + 1
    /\ WRITE_STREAM' = conns + 1
    /\ IS_OUTGOING_CONNECTION' = TRUE
    /\ UNCHANGED << IS_CONNECTED, CONNECTED_TO, ACTIVE_CLIENT, CONTROL_ACTIVE,
                    BEING_CONTROLLED, EDGE_LOCK_POS, REMOTE_MOUSE_POS, CONTROL_START_TIME,
                    REMOTE_EDGE, REMOTE_SCREENS, loopvars, inbound, outOpen, wirevars,
                    DISCOVERED_PEERS, udp_buffer, finishing, peer_listening >>
    /\ UNCHANGED << lockvars, uivars >>
    /\ UNCHANGED pairvars
    /\ UNCHANGED sysvars

\* A dial task: the second connect returns Err, `?` returns Err from
\* connect_to_server and the task ends without recording the connection
\* (network.rs:580, 748-750).  The read loop spawned before goes on.
DialLateFail ==
    /\ finishing > 0
    /\ finishing' = finishing - 1
    /\ UNCHANGED << cellvars, loopvars, inbound, outOpen, wirevars, DISCOVERED_PEERS,
                    udp_buffer, dialing, conns, peer_listening >>
    /\ UNCHANGED << lockvars, uivars >>
    /\ UNCHANGED pairvars
    /\ UNCHANGED sysvars

\* start_udp_listener: recv_from returns Err and `?` ends the listener
\* (network.rs:695).
UdpError ==
    /\ udp_task = "recv"
    /\ udp_task' = "ended"
    /\ UNCHANGED << cellvars, loopvars, inbound, outOpen, wirevars, discvars, lockvars,
                    uivars, pairvars, key_task, hide_count >>

\* Time passes while discovery runs: the listener stamps last_seen with the
\* clock's seconds (network.rs:715-718).
TimePasses ==
    /\ now < StartClock + MaxClock * TimeStep
    /\ now' = now + TimeStep
    /\ UNCHANGED << IS_CONNECTED, CONNECTED_TO, WRITE_STREAM, ACTIVE_CLIENT,
                    IS_OUTGOING_CONNECTION, CONTROL_ACTIVE, BEING_CONTROLLED,
                    EDGE_LOCK_POS, REMOTE_MOUSE_POS, CONTROL_START_TIME, REMOTE_EDGE,
                    REMOTE_SCREENS, cursor, pc, snap, pend, last_pos, inbound, outOpen,
                    last_ctl, started, drop, overflow >>
    /\ UNCHANGED netvars

\* The other peer's start_server binds its listener.
PeerListen ==
    /\ ~peer_listening
    /\ peer_listening' = TRUE
    /\ UNCHANGED << cellvars, loopvars, inbound, outOpen, wirevars, DISCOVERED_PEERS,
                    udp_buffer, dialing, finishing, conns >>
    /\ UNCHANGED << lockvars, uivars >>
    /\ UNCHANGED pairvars
    /\ UNCHANGED sysvars

(***************************************************************************)
(* Senders.  Every send clones the Arc in WRITE_STREAM and locks the mutex *)
(* around the write half (network.rs:1077-1083, 1091-1104, 1124-1130,      *)
(* 1139-1145, 1159-1166).                                                  *)
(***************************************************************************)
\* Sending through the accepted stream's mutex, as send_message(client, ..)
\* does: a faulty variant, against which C20 is tested.
SendMutexClient == "client"

\* The mutex a send locks.
SendMutex == "write_half"

\* lib.rs send_layout_sync -> network::send_layout_sync: the write endpoint is
\* there and the command comes to writer.lock().await.
GuiSend ==
    /\ gui = "idle"
    /\ WRITE_STREAM # 0
    /\ gui' = "wait"
    /\ UNCHANGED << cellvars, loopvars, inbound, outOpen, wirevars, discvars, locks, uivars >>
    /\ UNCHANGED pairvars
    /\ UNCHANGED sysvars

\* send_layout_sync: writer.lock().await returns.
GuiLock ==
    /\ gui = "wait"
    /\ locks[SendMutex] = "free"
    /\ locks' = [locks EXCEPT ![SendMutex] = "gui"]
    /\ gui' = "write"
    /\ UNCHANGED << cellvars, loopvars, inbound, outOpen, wirevars, discvars, uivars >>
    /\ UNCHANGED pairvars
    /\ UNCHANGED sysvars

\* send_layout_sync: write_all and flush return, the guard is dropped.
GuiDone ==
    /\ gui = "write"
    /\ locks' = [locks EXCEPT ![SendMutex] = "free"]
    /\ gui' = "idle"
    /\ UNCHANGED << cellvars, loopvars, inbound, outOpen, wirevars, discvars, uivars >>
    /\ UNCHANGED pairvars
    /\ UNCHANGED sysvars

\* What a call of send_key_to_remote or send_click_to_remote does: it returns
\* at once unless CONTROL_ACTIVE; otherwise it clones the write endpoint and,
\* when there is one, locks it and writes one line of type `line`.
InputCall(fn, line) ==
    [fn |-> fn, active |-> CONTROL_ACTIVE,
     wrote |-> IF CONTROL_ACTIVE /\ WRITE_STREAM # 0 THEN line ELSE "nothing"]

send_key_to_remote ==
    /\ (CONTROL_ACTIVE /\ WRITE_STREAM # 0) => locks[SendMutex] = "free"
    /\ input_call' = InputCall("send_key_to_remote", "key_event")
    /\ UNCHANGED << cellvars, loopvars, inbound, outOpen, wirevars, discvars, lockvars,
                    layout_call, pairvars, sysvars >>

send_click_to_remote ==
    /\ (CONTROL_ACTIVE /\ WRITE_STREAM # 0) => locks[SendMutex] = "free"
    /\ input_call' = InputCall("send_click_to_remote", "mouse_click")
    /\ UNCHANGED << cellvars, loopvars, inbound, outOpen, wirevars, discvars, lockvars,
                    layout_call, pairvars, sysvars >>

\* send_key_to_remote / send_click_to_remote as far as the await: the call
\* has read CONTROL_ACTIVE as true (network.rs:1121, 1136), has cloned the
\* write endpoint (1124, 1139), which is there, and comes to
\* writer.lock().await with the line it will write.  (A call that reads
\* CONTROL_ACTIVE as false, or finds no write endpoint, returns at once.)
InputBegin(line) ==
    /\ key_task = "none"
    /\ CONTROL_ACTIVE
    /\ WRITE_STREAM # 0
    /\ key_task' = line
    /\ UNCHANGED << cellvars, loopvars, inbound, outOpen, wirevars, discvars, lockvars,
                    uivars, pairvars, hide_count, udp_task >>

\* send_key_to_remote / send_click_to_remote: writer.lock().await returns, the
\* line is written and the call ends (network.rs:1128-1129, 1143-1144).
InputWrite ==
    /\ key_task # "none"
    /\ locks[SendMutex] = "free"
    /\ input_call' = [fn |-> IF key_task = "key_event" THEN "send_key_to_remote"
                             ELSE "send_click_to_remote",
                      active |-> TRUE, wrote |-> key_task]
    /\ key_task' = "none"
    /\ UNCHANGED << cellvars, loopvars, inbound, outOpen, wirevars, discvars, lockvars,
                    layout_call, pairvars, hide_count, udp_task >>

(***************************************************************************)
(* Control loop: start_mouse_tracking and check_edge_transition.           *)
(***************************************************************************)
\* The four edge tests of check_edge_transition and the choice among them.
should_transition(remote_edge, mx, my) ==
    LET at_right_edge == mx >= MaxX(LocalScreens) - edge_threshold
        at_left_edge == mx <= MinX(LocalScreens) + edge_threshold
        at_top_edge == my <= MinY(LocalScreens) + edge_threshold
        at_bottom_edge == my >= MaxY(LocalScreens) - edge_threshold
    IN  CASE remote_edge = "right" -> at_right_edge
          [] remote_edge = "left" -> at_left_edge
          [] remote_edge = "top" -> at_top_edge
          [] remote_edge = "bottom" -> at_bottom_edge
          [] OTHER -> at_right_edge

\* Mapped with the coordinate taken from the origin instead of from the
\* desktop's minimum: a faulty variant, against which C10 is tested.
MappedFromOrigin(c, local_min, local_extent, remote_min, remote_extent) ==
    IF local_extent > 0
    THEN remote_min + TruncDiv(c * remote_extent, local_extent)
    ELSE remote_min + TruncDiv(remote_extent, 2)

\* remote_min + (relative * remote_extent) as i32, relative = (c - min) / extent
\* (0.5 when the local extent is not positive).  The code computes the quotient
\* and the product in f64; for the pointer positions of this model the result
\* truncates to the exact quotient below (for some other pixels the rounding
\* of the f64 quotient makes the result one less).
Mapped(c, local_min, local_extent, remote_min, remote_extent) ==
    IF local_extent > 0
    THEN remote_min + TruncDiv((c - local_min) * remote_extent, local_extent)
    ELSE remote_min + TruncDiv(remote_extent, 2)

\* The point of the remote desktop where control starts.
EntryPoint(remote_edge, mx, my, remote) ==
    LET remote_min_x == MinX(remote)
        remote_max_x == MaxX(remote)
        remote_min_y == MinY(remote)
        remote_max_y == MaxY(remote)
        mapped_y == Mapped(my, MinY(LocalScreens), MaxY(LocalScreens) - MinY(LocalScreens),
                           remote_min_y, remote_max_y - remote_min_y)
        mapped_x == Mapped(mx, MinX(LocalScreens), MaxX(LocalScreens) - MinX(LocalScreens),
                           remote_min_x, remote_max_x - remote_min_x)
    IN  CASE remote_edge = "left" ->
               << remote_max_x - EntryInset, Clamp(mapped_y, remote_min_y, remote_max_y - 1) >>
          [] remote_edge = "top" ->
               << Clamp(mapped_x, remote_min_x, remote_max_x - 1), remote_max_y - EntryInset >>
          [] remote_edge = "bottom" ->
               << Clamp(mapped_x, remote_min_x, remote_max_x - 1), remote_min_y + EntryInset >>
          [] OTHER ->
               << remote_min_x + EntryInset, Clamp(mapped_y, remote_min_y, remote_max_y - 1) >>

\* Where the local pointer is pinned while the remote is controlled.
EdgeLock(remote_edge, mx, my) ==
    << CASE remote_edge = "right" -> MaxX(LocalScreens) - 1
         [] remote_edge = "left" -> MinX(LocalScreens) + 1
         [] OTHER -> mx,
       CASE remote_edge = "top" -> MinY(LocalScreens) + 1
         [] remote_edge = "bottom" -> MaxY(LocalScreens) - 1
         [] OTHER -> my >>

\* Scaled with the quotient rounded down instead of cut toward zero: a faulty
\* variant, against which C11 is tested.
ScaledFloor(raw) == (raw * SensitivityNum) \div SensitivityDen

\* (raw as f64 * sensitivity) as i32
Scaled(raw) == TruncDiv(raw * SensitivityNum, SensitivityDen)

\* `elapsed > 500` with elapsed = now - start_time on u64 (network.rs:893, 903).
\* Below zero the subtraction wraps to 2^64 - (start_time - now), which exceeds
\* the cooldown for every pair of millisecond timestamps.
CooldownOver(clock, start_time) ==
    IF clock >= start_time THEN clock - start_time > CooldownMs ELSE TRUE

\* The return test of the delta capture.
should_return(edge_pos, new_remote_x, remote, cooled) ==
    IF cooled
    THEN \/ edge_pos[1] >= MaxX(LocalScreens) - ReturnBand /\ new_remote_x < MinX(remote)
         \/ edge_pos[1] <= MinX(LocalScreens) + ReturnBand /\ new_remote_x > MaxX(remote)
    ELSE FALSE

\* Where the pointer is put back on return.
ReturnPoint(edge_pos) ==
    << IF edge_pos[1] >= MaxX(LocalScreens) - ReturnBand
       THEN MaxX(LocalScreens) - ReturnInset
       ELSE MinX(LocalScreens) + ReturnInset,
       edge_pos[2] >>

\* ControlActiveAfter without the clearing: a faulty variant, against which C5
\* is tested.
ControlActiveKept(returning, active) == active

\* CONTROL_ACTIVE after the return test: cleared when control returns
\* (network.rs:917), left alone otherwise.
ControlActiveAfter(returning, active) == IF returning THEN FALSE ELSE active

\* The pointer moves that follow the write of a delta-capture tick.
MovesAfter(returning, edge_pos) ==
    IF returning THEN << ReturnPoint(edge_pos), edge_pos >> ELSE << edge_pos >>

\* The pointer after a sequence of absolute moves.
RECURSIVE AfterMoves(_, _)
AfterMoves(c, moves) ==
    IF moves = << >> THEN c ELSE AfterMoves(move_mouse(Head(moves)), Tail(moves))

\* The 8 ms sleep ends; the loop reads the flags and the pointer.
TickSnapshot ==
    /\ pc = "sleep"
    /\ snap' = [is_connected |-> IS_CONNECTED, being_controlled |-> BEING_CONTROLLED,
                control_active |-> CONTROL_ACTIVE, mx |-> cursor[1], my |-> cursor[2]]
    /\ pc' = "snap"
    /\ drop' = IF drop = "dropped" THEN "seen" ELSE "none"
    /\ UNCHANGED << IS_CONNECTED, CONNECTED_TO, WRITE_STREAM, ACTIVE_CLIENT,
                    IS_OUTGOING_CONNECTION, CONTROL_ACTIVE, BEING_CONTROLLED,
                    EDGE_LOCK_POS, REMOTE_MOUSE_POS, CONTROL_START_TIME, REMOTE_EDGE,
                    REMOTE_SCREENS, cursor, now, pend, last_pos, inbound, outOpen,
                    last_ctl, started, overflow >>
    /\ UNCHANGED netvars

\* `continue`: not connected, or being controlled.
TickSkip ==
    /\ pc = "snap"
    /\ ~snap.is_connected \/ snap.being_controlled
    /\ pc' = "sleep"
    /\ snap' = NoSnap
    /\ UNCHANGED << IS_CONNECTED, CONNECTED_TO, WRITE_STREAM, ACTIVE_CLIENT,
                    IS_OUTGOING_CONNECTION, CONTROL_ACTIVE, BEING_CONTROLLED,
                    EDGE_LOCK_POS, REMOTE_MOUSE_POS, CONTROL_START_TIME, REMOTE_EDGE,
                    REMOTE_SCREENS, cursor, now, pend, last_pos, inbound, outOpen,
                    last_ctl, started, drop, overflow >>
    /\ UNCHANGED netvars

\* The delta capture, up to the await of the write.
TickDelta ==
    /\ pc = "snap"
    /\ snap.is_connected /\ ~snap.being_controlled /\ snap.control_active
    /\ LET edge_pos == EDGE_LOCK_POS
           raw_delta_x == snap.mx - edge_pos[1]
           raw_delta_y == snap.my - edge_pos[2]
           new_remote_x == REMOTE_MOUSE_POS[1] + Scaled(raw_delta_x)
           new_remote_y == REMOTE_MOUSE_POS[2] + Scaled(raw_delta_y)
           returning == should_return(edge_pos, new_remote_x, REMOTE_SCREENS,
                                      CooldownOver(now, CONTROL_START_TIME))
           clamped_x == Clamp(new_remote_x, MinX(REMOTE_SCREENS), MaxX(REMOTE_SCREENS) - 1)
           clamped_y == Clamp(new_remote_y, MinY(REMOTE_SCREENS), MaxY(REMOTE_SCREENS) - 1)
       IN  IF raw_delta_x # 0 \/ raw_delta_y # 0
           THEN /\ CONTROL_ACTIVE' = ControlActiveAfter(returning, CONTROL_ACTIVE)
                /\ REMOTE_MOUSE_POS' = IF returning THEN REMOTE_MOUSE_POS
                                       ELSE << clamped_x, clamped_y >>
                /\ pend' = IF returning
                           THEN [msg |-> "control_end", x |-> 0, y |-> 0,
                                 writer |-> WRITE_STREAM,
                                 moves |-> MovesAfter(TRUE, edge_pos), pin |-> TRUE]
                           ELSE [msg |-> "mouse_move", x |-> clamped_x, y |-> clamped_y,
                                 writer |-> WRITE_STREAM,
                                 moves |-> MovesAfter(FALSE, edge_pos), pin |-> TRUE]
                /\ overflow' = IF now < CONTROL_START_TIME THEN "wraps" ELSE overflow
                /\ pc' = "send"
                /\ UNCHANGED last_pos
           ELSE /\ last_pos' = edge_pos
                /\ pc' = "sleep"
                /\ UNCHANGED << CONTROL_ACTIVE, REMOTE_MOUSE_POS, pend, overflow >>
    /\ snap' = NoSnap
    /\ UNCHANGED << IS_CONNECTED, CONNECTED_TO, WRITE_STREAM, ACTIVE_CLIENT,
                    IS_OUTGOING_CONNECTION, BEING_CONTROLLED, EDGE_LOCK_POS,
                    CONTROL_START_TIME, REMOTE_EDGE, REMOTE_SCREENS, cursor, now,
                    inbound, outOpen, last_ctl, started, drop >>
    /\ UNCHANGED netvars

\* The delta capture in a build with overflow checks: `now - start_time` below
\* zero panics and the control loop's task ends.
TickPanic ==
    /\ pc = "snap"
    /\ snap.is_connected /\ ~snap.being_controlled /\ snap.control_active
    /\ snap.mx # EDGE_LOCK_POS[1] \/ snap.my # EDGE_LOCK_POS[2]
    /\ now < CONTROL_START_TIME
    /\ overflow = "unseen"
    /\ pc' = "panicked"
    /\ snap' = NoSnap
    /\ UNCHANGED << IS_CONNECTED, CONNECTED_TO, WRITE_STREAM, ACTIVE_CLIENT,
                    IS_OUTGOING_CONNECTION, CONTROL_ACTIVE, BEING_CONTROLLED,
                    EDGE_LOCK_POS, REMOTE_MOUSE_POS, CONTROL_START_TIME, REMOTE_EDGE,
                    REMOTE_SCREENS, cursor, now, pend, last_pos, inbound, outOpen,
                    last_ctl, started, drop, overflow >>
    /\ UNCHANGED netvars

\* Not controlling: the pointer moved since the last look, check_edge_transition
\* runs, up to the await of the write of control_start.
TickWatch ==
    /\ pc = "snap"
    /\ snap.is_connected /\ ~snap.being_controlled /\ ~snap.control_active
    /\ LET mx == snap.mx
           my == snap.my
           entry == EntryPoint(REMOTE_EDGE, mx, my, REMOTE_SCREENS)
           edge == EdgeLock(REMOTE_EDGE, mx, my)
       IN  IF << mx, my >> # last_pos
           THEN /\ last_pos' = << mx, my >>
                /\ IF /\ LocalScreens # << >>
                      /\ REMOTE_SCREENS # << >>
                      /\ should_transition(REMOTE_EDGE, mx, my)
                   THEN /\ EDGE_LOCK_POS' = edge
                        /\ REMOTE_MOUSE_POS' = entry
                        /\ CONTROL_START_TIME' = now
                        /\ CONTROL_ACTIVE' = TRUE
                        /\ pend' = [msg |-> "control_start", x |-> entry[1], y |-> entry[2],
                                    writer |-> WRITE_STREAM, moves |-> << edge >>,
                                    pin |-> FALSE]
                        /\ pc' = "send"
                   ELSE /\ pc' = "sleep"
                        /\ UNCHANGED << EDGE_LOCK_POS, REMOTE_MOUSE_POS, CONTROL_START_TIME,
                                        CONTROL_ACTIVE, pend >>
           ELSE /\ pc' = "sleep"
                /\ UNCHANGED << last_pos, EDGE_LOCK_POS, REMOTE_MOUSE_POS,
                                CONTROL_START_TIME, CONTROL_ACTIVE, pend >>
    /\ snap' = NoSnap
    /\ UNCHANGED << IS_CONNECTED, CONNECTED_TO, WRITE_STREAM, ACTIVE_CLIENT,
                    IS_OUTGOING_CONNECTION, BEING_CONTROLLED, REMOTE_EDGE,
                    REMOTE_SCREENS, cursor, now, inbound, outOpen, last_ctl, started,
                    drop, overflow >>
    /\ UNCHANGED netvars

\* send_control_message / send_mouse_to_remote complete: writer.lock().await
\* returns once the mutex is free, the line is written on the write half
\* cloned before the await (nothing is written when there was none) and the
\* mutex is released; then the pointer is moved.
TickFinishLoop ==
    /\ pc = "send"
    /\ pend.writer # 0 => locks[SendMutex] = "free"
    /\ last_ctl' = IF pend.writer # 0 /\ pend.msg \in { "control_start", "control_end" }
                   THEN pend.msg ELSE last_ctl
    /\ started' = IF pend.writer # 0 /\ pend.msg = "control_start"
                  THEN started \cup { pend.writer } ELSE started
    /\ cursor' = AfterMoves(cursor, pend.moves)
    /\ last_pos' = IF pend.pin THEN pend.moves[Len(pend.moves)] ELSE last_pos
    /\ pend' = NoPend
    /\ pc' = "sleep"
    /\ UNCHANGED << IS_CONNECTED, CONNECTED_TO, WRITE_STREAM, ACTIVE_CLIENT,
                    IS_OUTGOING_CONNECTION, CONTROL_ACTIVE, BEING_CONTROLLED,
                    EDGE_LOCK_POS, REMOTE_MOUSE_POS, CONTROL_START_TIME, REMOTE_EDGE,
                    REMOTE_SCREENS, now, snap, inbound, outOpen, drop, overflow >>

\* The end of an iteration that wrote, or tried to write, a line.
TickFinish ==
    /\ TickFinishLoop
    /\ UNCHANGED netvars

\* The end of an iteration beside the other peer: the line written on the
\* write half is in flight to the other peer's reader.
TickFinishPair ==
    /\ TickFinishLoop
    /\ pend.writer # 0 => Len(to_peer) < MaxFlight
    /\ to_peer' = IF pend.writer # 0
                  THEN Append(to_peer, ControlMsg(pend.msg, pend.x, pend.y))
                  ELSE to_peer
    /\ UNCHANGED << wirevars, discvars, lockvars, uivars, sysvars, peer, from_peer, move_arg >>

(***************************************************************************)
(* The other peer.  It runs the same program; what is kept of it are its   *)
(* two control flags and the control lines it writes on the connection it  *)
(* dialed (this peer's accepted session).  Its control loop is taken a     *)
(* whole iteration at a time, with its pointer where its user leaves it.   *)
(***************************************************************************)
\* The other peer's loop finds itself idle with its pointer at its armed edge:
\* check_edge_transition sets its CONTROL_ACTIVE and sends control_start.
PeerTrigger ==
    /\ inbound > 0
    /\ ~peer.control_active /\ ~peer.being_controlled
    /\ Len(from_peer) < MaxFlight
    /\ peer' = [peer EXCEPT !.control_active = TRUE]
    /\ \E p \in MsgPoints :
          from_peer' = Append(from_peer, ControlMsg("control_start", p[1], p[2]))
    /\ UNCHANGED << cellvars, loopvars, inbound, outOpen, wirevars, discvars, lockvars,
                    uivars, sysvars, to_peer >>

\* The other peer's delta capture sends a mouse_move.
PeerMove ==
    /\ inbound > 0
    /\ peer.control_active /\ ~peer.being_controlled
    /\ Len(from_peer) < MaxFlight
    /\ \E p \in MsgPoints : from_peer' = Append(from_peer, MouseMove(p[1], p[2]))
    /\ UNCHANGED << cellvars, loopvars, inbound, outOpen, wirevars, discvars, lockvars,
                    uivars, sysvars, peer, to_peer >>

\* The other peer's delta capture returns control: it clears its
\* CONTROL_ACTIVE and sends control_end.
PeerReturn ==
    /\ inbound > 0
    /\ peer.control_active /\ ~peer.being_controlled
    /\ Len(from_peer) < MaxFlight
    /\ peer' = [peer EXCEPT !.control_active = FALSE]
    /\ from_peer' = Append(from_peer, ControlMsg("control_end", 0, 0))
    /\ UNCHANGED << cellvars, loopvars, inbound, outOpen, wirevars, discvars, lockvars,
                    uivars, sysvars, to_peer >>

\* The other peer's reader handles the next line this peer wrote.
PeerHandle ==
    /\ to_peer # << >>
    /\ peer' = [peer EXCEPT !.being_controlled =
                    CASE Head(to_peer).type = "control_start" -> TRUE
                      [] Head(to_peer).type = "control_end" -> FALSE
                      [] OTHER -> @]
    /\ to_peer' = Tail(to_peer)
    /\ UNCHANGED << cellvars, loopvars, inbound, outOpen, wirevars, discvars, lockvars,
                    uivars, sysvars, from_peer >>

\* This peer's reader of the accepted session handles the next line the other
\* peer wrote.
PeerDeliver ==
    /\ inbound > 0
    /\ from_peer # << >>
    /\ Handle(Head(from_peer), TRUE)
    /\ from_peer' = Tail(from_peer)
    /\ UNCHANGED << IS_CONNECTED, CONNECTED_TO, WRITE_STREAM, ACTIVE_CLIENT,
                    IS_OUTGOING_CONNECTION, CONTROL_ACTIVE, EDGE_LOCK_POS,
                    REMOTE_MOUSE_POS, CONTROL_START_TIME, REMOTE_EDGE, now, pc, snap,
                    pend, last_pos, inbound, outOpen, last_ctl, started, drop, overflow >>
    /\ UNCHANGED << wirevars, discvars, lockvars, uivars, sysvars, peer, to_peer >>

(***************************************************************************)
(* Environment: the user, the clock, the GUI.                              *)
(***************************************************************************)
\* The user moves the pointer while the loop sleeps.
UserMove(p) ==
    /\ pc = "sleep"
    /\ p # cursor
    /\ cursor' = p
    /\ UNCHANGED << IS_CONNECTED, CONNECTED_TO, WRITE_STREAM, ACTIVE_CLIENT,
                    IS_OUTGOING_CONNECTION, CONTROL_ACTIVE, BEING_CONTROLLED,
                    EDGE_LOCK_POS, REMOTE_MOUSE_POS, CONTROL_START_TIME, REMOTE_EDGE,
                    REMOTE_SCREENS, now, pc, snap, pend, last_pos, inbound, outOpen,
                    last_ctl, started, drop, overflow >>
    /\ UNCHANGED netvars

\* While the peer controls the remote the user pushes the pointer away from
\* the edge lock by d, as far as the desktop lets it go.
UserNudge(d) ==
    /\ pc = "sleep"
    /\ CONTROL_ACTIVE
    /\ cursor = EDGE_LOCK_POS
    /\ LET target == << EDGE_LOCK_POS[1] + d[1], EDGE_LOCK_POS[2] + d[2] >>
       IN  /\ target = move_mouse(target)
           /\ cursor' = target
    /\ UNCHANGED << IS_CONNECTED, CONNECTED_TO, WRITE_STREAM, ACTIVE_CLIENT,
                    IS_OUTGOING_CONNECTION, CONTROL_ACTIVE, BEING_CONTROLLED,
                    EDGE_LOCK_POS, REMOTE_MOUSE_POS, CONTROL_START_TIME, REMOTE_EDGE,
                    REMOTE_SCREENS, now, pc, snap, pend, last_pos, inbound, outOpen,
                    last_ctl, started, drop, overflow >>
    /\ UNCHANGED netvars

\* Time passes; the clock never runs backwards.  The program reads the clock
\* only to stamp CONTROL_START_TIME and to compute the time elapsed since then
\* in the delta capture, so the model lets time pass only where that changes
\* what a later read can see: while the loop sleeps, the peer controls and the
\* cooldown has not yet expired.
ClockAdvance ==
    /\ pc = "sleep"
    /\ CONTROL_ACTIVE
    /\ now - CONTROL_START_TIME <= CooldownMs
    /\ now < StartClock + MaxClock * TimeStep
    /\ now' = now + TimeStep
    /\ UNCHANGED << IS_CONNECTED, CONNECTED_TO, WRITE_STREAM, ACTIVE_CLIENT,
                    IS_OUTGOING_CONNECTION, CONTROL_ACTIVE, BEING_CONTROLLED,
                    EDGE_LOCK_POS, REMOTE_MOUSE_POS, CONTROL_START_TIME, REMOTE_EDGE,
                    REMOTE_SCREENS, cursor, pc, snap, pend, last_pos, inbound, outOpen,
                    last_ctl, started, drop, overflow >>
    /\ UNCHANGED netvars

\* The wall clock is set back (SystemTime is not monotonic).  Only a clock
\* behind the stamp reads differently from one that did not advance, so the
\* model sets the clock back only while it is not yet behind the stamp.
ClockBack ==
    /\ pc = "sleep"
    /\ CONTROL_ACTIVE
    /\ now >= CONTROL_START_TIME
    /\ now >= TimeStep
    /\ now' = now - TimeStep
    /\ UNCHANGED << IS_CONNECTED, CONNECTED_TO, WRITE_STREAM, ACTIVE_CLIENT,
                    IS_OUTGOING_CONNECTION, CONTROL_ACTIVE, BEING_CONTROLLED,
                    EDGE_LOCK_POS, REMOTE_MOUSE_POS, CONTROL_START_TIME, REMOTE_EDGE,
                    REMOTE_SCREENS, cursor, pc, snap, pend, last_pos, inbound, outOpen,
                    last_ctl, started, drop, overflow >>
    /\ UNCHANGED netvars

\* A validity test that lets every string through: a faulty variant, against
\* which C18 is tested.
AnyEdge(remote_edge) == TRUE

\* lib.rs set_screen_layout: valid_edges.contains(&remote_edge.as_str()).
IsValidEdge(remote_edge) == remote_edge \in ValidEdges

\* The strings the GUI passes to set_screen_layout: the four edges and one
\* that is none of them.
EdgeArgs == ValidEdges \cup { "diagonal" }

\* lib.rs get_screen_layout.
GetScreenLayout == REMOTE_EDGE

\* lib.rs get_connection_status: what the GUI is told of the connection.
get_connection_status ==
    [is_connected |-> IS_CONNECTED,
     connected_to |-> CONNECTED_TO,
     discovered_peers |-> [i \in DOMAIN DISCOVERED_PEERS |->
                             [name |-> DISCOVERED_PEERS[i].name,
                              ip |-> DISCOVERED_PEERS[i].ip,
                              computer_type |-> DISCOVERED_PEERS[i].computer_type]]]


\* lib.rs set_screen_layout
SetScreenLayout(remote_edge) ==
    /\ REMOTE_EDGE' = IF IsValidEdge(remote_edge) THEN remote_edge ELSE REMOTE_EDGE
    /\ layout_call' = [arg |-> remote_edge,
                       result |-> IF IsValidEdge(remote_edge) THEN "Ok" ELSE "Err"]
    /\ UNCHANGED << IS_CONNECTED, CONNECTED_TO, WRITE_STREAM, ACTIVE_CLIENT,
                    IS_OUTGOING_CONNECTION, CONTROL_ACTIVE, BEING_CONTROLLED,
                    EDGE_LOCK_POS, REMOTE_MOUSE_POS, CONTROL_START_TIME, REMOTE_SCREENS,
                    cursor, now, pc, snap, pend, last_pos, inbound, outOpen, last_ctl,
                    started, drop, overflow >>
    /\ UNCHANGED << wirevars, discvars, lockvars, pairvars, sysvars, input_call, move_arg >>

\* One iteration of the control loop.
Tick ==
    \/ TickSnapshot
    \/ TickSkip
    \/ TickDelta
    \/ TickPanic
    \/ TickWatch
    \/ TickFinish

\* Sessions and races: every order of accept, dial, hello, control messages,
\* session loss, pointer motion and loop steps, with the layout left at its
\* default edge.
Next ==
    \/ Accept
    \/ InboundClose
    \/ \E msg \in PeerMessages : InboundRecv(msg)
    \/ \E msg \in PeerMessages : OutboundRecv(msg)
    \/ Dial
    \/ \E c \in outOpen : OutboundClose(c)
    \/ Tick
    \/ \E p \in UserPoints : UserMove(p)
    \/ ClockAdvance
    \/ ClockBack

Spec == Init /\ [][Next]_vars

\* Layouts: the GUI moves the remote desktop to any edge at any time and the
\* peer re-announces its displays, over one dialed session on which the peer
\* never takes control.
NextLayout ==
    \/ Dial
    \/ \E msg \in Hellos : OutboundRecv(msg)
    \/ Tick
    \/ \E p \in UserPoints : UserMove(p)
    \/ ClockAdvance
    \/ ClockBack
    \/ \E e \in EdgeArgs : SetScreenLayout(e)

SpecLayout == Init /\ [][NextLayout]_vars

\* Deltas: the peer controls the remote over one dialed session, at any edge,
\* and the user pushes the pointer off the edge lock in steps that do not
\* saturate at the clamp.  The user walks to an edge and picks the layout
\* only while the peer is idle.
NextDelta ==
    \/ Dial
    \/ OutboundRecv(Hello(PeerName, RemoteSingle))
    \/ Tick
    \/ \E p \in UserPoints : ~CONTROL_ACTIVE /\ UserMove(p)
    \/ \E d \in Nudges : UserNudge(d)
    \/ ClockAdvance
    \/ ClockBack
    \/ \E e \in ValidEdges : ~CONTROL_ACTIVE /\ SetScreenLayout(e)

SpecDelta == Init /\ [][NextDelta]_vars

\* Bytes: the peer writes lines on an accepted and on a dialed session, the
\* network cuts them into reads, and the two readers take them apart.  A
\* reader sees the end of its stream only after the bytes before it.
NextWire ==
    \/ Accept
    \/ Dial
    \/ \E s \in Sessions, l \in WireLines : PeerWrite(s, l)
    \/ InLock
    \/ \E k \in 1..(3 * MaxLines) : InRead(k)
    \/ InHandle
    \/ \E k \in 1..(3 * MaxLines) : OutFill(k)
    \/ \E c \in outOpen : OutReadLine(c)
    \/ wire["in"] = << >> /\ in_pending = << >> /\ InboundClose
    \/ \E c \in outOpen : wire["out"] = << >> /\ out_buf = << >> /\ OutboundClose(c)

SpecWire == Init /\ [][NextWire]_vars

\* Where the user puts the pointer while sends are watched: on the right
\* edge and back inside the screen.
SendPoints == { << 1919, 540 >>, << -640, 540 >> }

\* Two peers that have dialed each other: each one's control loop may take
\* control at its armed edge, and the control lines of the two cross on the
\* network.
NextPair ==
    \/ Accept
    \/ Dial
    \/ OutboundRecv(Hello(PeerName, RemoteSingle))
    \/ TickSnapshot
    \/ TickSkip
    \/ TickDelta
    \/ TickWatch
    \/ TickFinishPair
    \/ \E p \in SendPoints : UserMove(p)
    \/ ClockAdvance
    \/ PeerTrigger
    \/ PeerMove
    \/ PeerReturn
    \/ PeerHandle
    \/ PeerDeliver

SpecPair == Init /\ [][NextPair]_vars

\* Keys and clicks: the platform hooks call send_key_to_remote and
\* send_click_to_remote at any time, beside the control loop, with the other
\* peer reached over an accepted session, a dialed one or both.
NextInput ==
    \/ Accept
    \/ Dial
    \/ InboundRecv(Hello(PeerName, RemoteSingle))
    \/ TickSnapshot
    \/ TickSkip
    \/ TickDelta
    \/ TickWatch
    \/ TickFinish
    \/ \E p \in SendPoints : UserMove(p)
    \/ ClockAdvance
    \/ send_key_to_remote
    \/ send_click_to_remote

SpecInput == Init /\ [][NextInput]_vars

\* Keys and clicks in flight: a call of send_key_to_remote or
\* send_click_to_remote runs on another task than the control loop, so the two
\* interleave between the call's read of CONTROL_ACTIVE and its write, over a
\* dialed session.
NextKeys ==
    \/ Dial
    \/ OutboundRecv(Hello(PeerName, RemoteSingle))
    \/ TickSnapshot
    \/ TickSkip
    \/ TickDelta
    \/ TickWatch
    \/ TickFinish
    \/ \E p \in SendPoints : UserMove(p)
    \/ ClockAdvance
    \/ \E line \in { "key_event", "mouse_click" } : InputBegin(line)
    \/ InputWrite

SpecKeys == Init /\ [][NextKeys]_vars

\* Receiving: hellos of two senders, control lines and pointer moves with
\* targets on and off the local displays arrive on an accepted and on a dialed
\* session, beside the control loop at the default edge.
NextRecv ==
    \/ Accept
    \/ Dial
    \/ \E msg \in RecvMessages : InboundRecv(msg)
    \/ \E msg \in RecvMessages : OutboundRecv(msg)
    \/ TickSnapshot
    \/ TickSkip
    \/ TickDelta
    \/ TickWatch
    \/ TickFinish
    \/ \E p \in SendPoints : UserMove(p)

SpecRecv == Init /\ [][NextRecv]_vars

\* The senders (the control loop and the GUI's layout_sync) beside the reader
\* of an accepted session that is sent pings.  The clock only advances here,
\* so the u64 subtraction of the loop cannot overflow.
NextLocks ==
    \/ Dial
    \/ Accept
    \/ OutboundRecv(Hello(PeerName, RemoteSingle))
    \/ TickSnapshot
    \/ TickSkip
    \/ TickDelta
    \/ TickWatch
    \/ TickFinish
    \/ \E p \in SendPoints : UserMove(p)
    \/ ClockAdvance
    \/ GuiSend
    \/ GuiLock
    \/ GuiDone
    \/ PeerWrite("in", JsonLine(Ping))
    \/ InLock
    \/ \E k \in 1..(3 * MaxLines) : InRead(k)
    \/ InHandle
    \/ wire["in"] = << >> /\ in_pending = << >> /\ InboundClose

SpecLocks == Init /\ [][NextLocks]_vars

\* Discovery: beacons arrive in any order and number, dial tasks run beside
\* the listener, and the dialed session's reader takes the other peer's hello.
NextDiscovery ==
    \/ \E d \in Datagrams : UdpRecv(d)
    \/ \E t \in DialTargets : ConnectDone(t)
    \/ \E t \in DialTargets : DialFail(t)
    \/ DialReturn
    \/ PeerListen
    \/ \E k \in 1..(3 * MaxDials) : OutFill(k)
    \/ \E c \in outOpen : OutReadLine(c)

SpecDiscovery == Init /\ [][NextDiscovery]_vars

\* Where a controlling peer may put this peer's pointer: the middle of the
\* second display, and the points where its check_edge_transition enters
\* this desktop over the right and over the left edge (EntryInset inside).
HandbackPoints ==
    { << -640, 540 >>,
      << MaxX(LocalScreens) - EntryInset, 540 >>,
      << MinX(LocalScreens) + EntryInset, 540 >> }

\* What a peer that takes and returns control writes.
HandbackMessages ==
    { Hello(PeerName, RemoteSingle), ControlMsg("control_end", 0, 0) }
    \cup { ControlMsg("control_start", p[1], p[2]) : p \in HandbackPoints }
    \cup { MouseMove(p[1], p[2]) : p \in HandbackPoints }

\* Being controlled and handed back: the other peer, reached over an accepted
\* or a dialed session, takes control, moves the pointer and returns control,
\* while this peer's user keeps the hands off the mouse: the pointer moves
\* only where a message handler or the control loop puts it.
NextHandback ==
    \/ Accept
    \/ Dial
    \/ \E msg \in HandbackMessages : InboundRecv(msg)
    \/ \E msg \in HandbackMessages : OutboundRecv(msg)
    \/ TickSnapshot
    \/ TickSkip
    \/ TickDelta
    \/ TickWatch
    \/ TickFinish
    \/ ClockAdvance
    \/ \E e \in { "right", "left" } : SetScreenLayout(e)

SpecHandback == Init /\ [][NextHandback]_vars

\* Sessions that come and go: beacons arrive while the clock runs, dial tasks
\* succeed or fail at each of their steps, the other peer dials in, and the
\* sessions of both kinds end.
NextRedial ==
    \/ \E d \in Datagrams : UdpRecv(d)
    \/ \E t \in DialTargets : ConnectDone(t)
    \/ \E t \in DialTargets : DialFail(t)
    \/ \E t \in DialTargets : HelloFail(t)
    \/ DialReturn
    \/ DialLateFail
    \/ PeerListen
    \/ \E c \in outOpen : OutboundClose(c)
    \/ Accept
    \/ InboundClose
    \/ UdpError
    \/ TimePasses

SpecRedial == Init /\ [][NextRedial]_vars

\* Discovery on a working LAN with fair scheduling: the other peer binds its
\* listener, its beacons keep arriving (one every two seconds,
\* network.rs:675-686), and every spawned task (a dial, the read loop of a
\* dialed session) gets to run.  The beacons arrive whatever else happens, so
\* their fairness is strong: the bound on the dial tasks in flight cannot hold
\* them off for ever.
SpecDiscoveryLive ==
    /\ Init /\ [][NextDiscovery]_vars
    /\ WF_vars(PeerListen)
    /\ SF_vars(UdpRecv(PeerBeacon))
    /\ WF_vars(\E t \in DialTargets : DialFail(t))
    /\ WF_vars(ConnectDone(PeerIp))
    /\ WF_vars(\E k \in 1..(3 * MaxDials) : OutFill(k))
    /\ WF_vars(\E c \in outOpen : OutReadLine(c))

\* An outbound session that ends, on a working LAN: discovery as above, and
\* the read loop of the dialed session may see EOF at any time.
NextReconnect ==
    \/ \E d \in Datagrams : UdpRecv(d)
    \/ \E t \in DialTargets : ConnectDone(t)
    \/ \E t \in DialTargets : DialFail(t)
    \/ DialReturn
    \/ PeerListen
    \/ \E k \in 1..(3 * MaxDials) : OutFill(k)
    \/ \E c \in outOpen : OutReadLine(c)
    \/ \E c \in outOpen : OutboundClose(c)

\* The scheduling of SpecDiscoveryLive: the other peer listens, its beacons
\* keep arriving and every spawned task gets to run.  When a session ends is
\* the network's choice and has no fairness.
SpecReconnectLive ==
    /\ Init /\ [][NextReconnect]_vars
    /\ WF_vars(PeerListen)
    /\ SF_vars(UdpRecv(PeerBeacon))
    /\ WF_vars(\E t \in DialTargets : DialFail(t))
    /\ WF_vars(ConnectDone(PeerIp))
    /\ WF_vars(DialReturn)
    /\ WF_vars(\E k \in 1..(3 * MaxDials) : OutFill(k))
    /\ WF_vars(\E c \in outOpen : OutReadLine(c))

\* A controller that goes away: the other peer takes control over a session
\* of either kind and the session ends, with or without a control_end before.
NextOrphan ==
    \/ Accept
    \/ InboundClose
    \/ \E msg \in PeerMessages : InboundRecv(msg)
    \/ Dial
    \/ \E c \in outOpen : OutboundClose(c)
    \/ \E msg \in PeerMessages : OutboundRecv(msg)
    \/ TickSnapshot
    \/ TickSkip
    \/ TickDelta
    \/ TickWatch
    \/ TickFinish
    \/ \E p \in SendPoints : UserMove(p)

\* The control loop is a task of its own that wakes every 8 ms
\* (network.rs:790-793), so each of its steps is taken once it can be.  What
\* the network, the other peer and the user do has no fairness.
SpecOrphanLive ==
    /\ Init /\ [][NextOrphan]_vars
    /\ WF_vars(TickSnapshot)
    /\ WF_vars(TickSkip)
    /\ WF_vars(TickDelta)
    /\ WF_vars(TickWatch)
    /\ WF_vars(TickFinish)

(***************************************************************************)
(* Properties.                                                             *)
(***************************************************************************)
\* A step that ends an iteration of the control loop.
TickEnds == pc \in { "snap", "send" } /\ pc' = "sleep"

\* C1: CONTROL_ACTIVE and BEING_CONTROLLED are never both true, in every
\* interleaving of the control loop with the reader tasks.
C1_ExclusivePhases == ~(CONTROL_ACTIVE /\ BEING_CONTROLLED)

\* C2: at the end of every tick in which the peer is controlling the remote,
\* the local pointer is at EDGE_LOCK_POS.
C2_PointerPinned ==
    [][(TickEnds /\ CONTROL_ACTIVE /\ CONTROL_ACTIVE') => cursor' = EDGE_LOCK_POS']_vars

\* C3: at every tick REMOTE_MOUSE_POS lies within the bounding box of the
\* remote display registry, also after a later hello has replaced the
\* registry.
C3_RemoteCursorInBox == pc = "snap" => InBox(REMOTE_MOUSE_POS, REMOTE_SCREENS)

\* C4: while the peer controls the remote, REMOTE_MOUSE_POS lies inside the
\* rectangle of at least one display of the registry.  Stated for the states
\* in which it lies in the bounding box, so that a registry replaced under the
\* cursor (C3) is not what fails it.
C4_RemoteCursorOnDisplay ==
    (CONTROL_ACTIVE /\ InBox(REMOTE_MOUSE_POS, REMOTE_SCREENS))
        => InSomeScreen(REMOTE_MOUSE_POS, REMOTE_SCREENS)

\* C5: among the control lines written on the write channel there are never two
\* control_end without a control_start between them: a control_end is never
\* written when the last control line written was a control_end.
C5_OneEndPerStart ==
    (pc = "send" /\ pend.msg = "control_end" /\ pend.writer # 0)
        => last_ctl # "control_end"

\* C5 happens: a control_end is about to be written after a control_start, for
\* the second time on this channel.
C5_Witness ==
    /\ pc = "send" /\ pend.msg = "control_end" /\ pend.writer # 0
    /\ last_ctl = "control_start"
    /\ now - CONTROL_START_TIME > CooldownMs
    /\ CONTROL_START_TIME > StartClock

\* C6: a mouse_move is written on a session only after a control_start has
\* been written on it, for every order of accept, hello, edge trigger and dial.
C6_StartBeforeMove ==
    (pc = "send" /\ pend.msg = "mouse_move" /\ pend.writer # 0)
        => pend.writer \in started

\* C7: no control_end is sent, and control does not return, in a tick in which
\* now - CONTROL_START_TIME <= 500.
C7_NoReturnInCooldown ==
    (pc = "send" /\ pend.msg = "control_end") => now - CONTROL_START_TIME > CooldownMs

\* C8: a tick that returns control more than 500 ms after it was taken at the
\* right (left) edge ends with the peer idle and the pointer 50 px inside that
\* edge, at the y of the edge lock.
C8_ReturnInset ==
    [][(TickEnds /\ pend.msg = "control_end" /\ now - CONTROL_START_TIME > CooldownMs)
         => (~CONTROL_ACTIVE' /\ cursor' = ReturnPoint(EDGE_LOCK_POS))]_vars

\* C9: when the dialed session ends while the peer controls the remote, the
\* next tick of the control loop leaves the peer idle.
C9_DropEndsControl ==
    [][(TickEnds /\ drop = "seen") => ~CONTROL_ACTIVE']_vars

\* v is min + rel * extent cut to an integer, for rel = (c - lmin) / (lmax - lmin)
\* clamped to [0, 1].
C10_Proportional(v, c, lmin, lmax, rmin, rmax) ==
    LET cc == Clamp(c, lmin, lmax)
        num == (cc - lmin) * (rmax - rmin)
        den == lmax - lmin
    IN  (v - rmin) * den <= num /\ num < (v - rmin + 1) * den

C11_Scaled(raw) == IF raw >= 0 THEN (3 * raw) \div 2 ELSE -((3 * (-raw)) \div 2)

\* C11: in a tick of the delta capture with a non-zero raw delta that does not
\* return control, the mouse_move to be written carries the new stored
\* REMOTE_MOUSE_POS, which is the previous one plus the raw delta scaled by
\* 1.5 (cut toward zero per component), clamped to [remote_min_x,
\* remote_max_x - 1] x [remote_min_y, remote_max_y - 1].
C11_DeltaMove ==
    [][(pc = "snap" /\ pc' = "send" /\ pend'.msg = "mouse_move") =>
        LET raw_x == snap.mx - EDGE_LOCK_POS[1]
            raw_y == snap.my - EDGE_LOCK_POS[2]
            want_x == REMOTE_MOUSE_POS[1] + C11_Scaled(raw_x)
            want_y == REMOTE_MOUSE_POS[2] + C11_Scaled(raw_y)
            lo_x == MinX(REMOTE_SCREENS)
            hi_x == MaxX(REMOTE_SCREENS) - 1
            lo_y == MinY(REMOTE_SCREENS)
            hi_y == MaxY(REMOTE_SCREENS) - 1
        IN  /\ << pend'.x, pend'.y >> = REMOTE_MOUSE_POS'
            /\ pend'.x = (IF want_x < lo_x THEN lo_x ELSE IF want_x > hi_x THEN hi_x ELSE want_x)
            /\ pend'.y = (IF want_y < lo_y THEN lo_y ELSE IF want_y > hi_y THEN hi_y ELSE want_y)]_vars

\* C11 happens: a mouse_move is about to be written whose x was cut by an odd
\* negative delta and stayed inside the remote desktop.
C11_Witness ==
    /\ pc = "send" /\ pend.msg = "mouse_move" /\ pend.writer # 0
    /\ MinX(REMOTE_SCREENS) < pend.x /\ pend.x < MaxX(REMOTE_SCREENS) - 1
    /\ cursor[1] = EDGE_LOCK_POS[1] - NudgeStep

\* C11 happens at the clamp: a mouse_move is about to be written at
\* remote_max_x - 1 after a push to the right.
C11_WitnessClamped ==
    /\ pc = "send" /\ pend.msg = "mouse_move" /\ pend.writer # 0
    /\ pend.x = MaxX(REMOTE_SCREENS) - 1
    /\ cursor[1] = EDGE_LOCK_POS[1] + NudgeStep

\* The rectangles of a display registry, in its order.
Rects(registry) ==
    [i \in DOMAIN registry |->
        [x |-> registry[i].x, y |-> registry[i].y,
         width |-> registry[i].width, height |-> registry[i].height]]

\* No byte of a session is in flight or waits in a reader.
WireIdle ==
    /\ \A s \in Sessions : wire[s] = << >>
    /\ in_pending = << >>
    /\ out_buf = << >>

\* The other peer has written its hello on session s.
HelloSentOn(s) == \E i \in DOMAIN sent[s] : sent[s][i] = JsonLine(Hello(PeerName, PeerScreens))

\* The other peer has written nothing but hellos.
OnlyHellos ==
    \A s \in Sessions : \A i \in DOMAIN sent[s] : sent[s][i] = JsonLine(Hello(PeerName, PeerScreens))

\* C12: once the other peer's hello has been delivered, over the accepted
\* session, the dialed one or both, REMOTE_SCREENS equals the other peer's
\* display list entry for entry: same rectangles, same order, nothing twice,
\* nothing stale.  Stated for a peer that writes hellos only, so that no
\* other line is what fails it.
C12_HelloRoundTrip ==
    (WireIdle /\ OnlyHellos /\ \E s \in Sessions : HelloSentOn(s))
        => Rects(REMOTE_SCREENS) = PeerScreens

\* C13: DISCOVERED_PEERS never holds an entry whose ip is the local IP, and a
\* datagram whose ip field is the local IP changes neither the registry nor
\* the dial tasks.
C13_NoSelfEcho ==
    /\ [](\A i \in DOMAIN DISCOVERED_PEERS : DISCOVERED_PEERS[i].ip # LocalIp)
    /\ [][(udp_buffer' # udp_buffer /\ Len(udp_buffer') >= 3 /\ udp_buffer'[3] = LocalIp)
            => (DISCOVERED_PEERS' = DISCOVERED_PEERS /\ dialing' = dialing)]_vars

\* C13 happens: the host's own beacon has just been received, after the other
\* peer was discovered and while no write endpoint exists.
C13_Witness ==
    /\ udp_buffer = OwnBeacon
    /\ Len(DISCOVERED_PEERS) = 1
    /\ WRITE_STREAM = 0
    /\ InFlight = 0

\* The bytes are the whole text of one line that is no message.
MalformedText(text) ==
    /\ Len(text) = 2
    /\ text[1].part = 1 /\ text[2].part = 2
    /\ text[1].line = text[2].line
    /\ text[1].line.enc # "json"

\* C14: when a reader, of an accepted or of a dialed session, takes a line
\* that is not the JSON of a message, it handles nothing and the session stays
\* open, so that later lines are still read.  Stated of lines that reach the
\* reader whole.
C14_MalformedSkipped ==
    [][/\ (in_pending # << >> /\ MalformedText(Head(in_pending)) /\ in_pending' = Tail(in_pending))
            => (inbound' = inbound /\ handled' = handled)
       /\ (FirstNL(out_buf) = 3 /\ MalformedText(SubSeq(out_buf, 1, 2)) /\ out_buf' # out_buf)
            => (outOpen' = outOpen /\ handled' = handled)]_vars

\* C15: every ping a reader hands to its handler, on an accepted or on a
\* dialed session, is answered by a pong written on that session.
C15_PingPong ==
    [][\A s \in Sessions :
          (/\ Len(handled'[s]) = Len(handled[s]) + 1
           /\ handled'[s][Len(handled'[s])].type = "ping")
            => pongs'[s] = pongs[s] + 1]_vars

\* The messages of a sequence of lines.
Messages(lines) == [i \in DOMAIN lines |-> lines[i].msg]

\* Every line the other peer wrote was the JSON of a message.
OnlyWellFormed == \A s \in Sessions : \A i \in DOMAIN sent[s] : sent[s][i].enc = "json"

\* C19: however TCP cuts the bytes of a session into reads, the messages the
\* reader handles are the lines the sender wrote, in order, none lost and
\* none split, on accepted and on dialed sessions.  Stated for a sender of
\* well-formed lines at a moment when every byte has been taken.
C19_Framing ==
    (WireIdle /\ OnlyWellFormed) => \A s \in Sessions : handled[s] = Messages(sent[s])

\* The other peer is in the discovered-peer list, this peer holds a write
\* endpoint from a dial of its own, and its display registry is not empty.
Discovered ==
    /\ \E i \in DOMAIN DISCOVERED_PEERS : DISCOVERED_PEERS[i].ip = PeerIp
    /\ WRITE_STREAM # 0
    /\ REMOTE_SCREENS # << >>

\* C16: with the other peer on the same LAN, its beacons delivered and the
\* tasks scheduled fairly, eventually the other peer is in the discovered-peer
\* list, this peer holds a write endpoint from its own dial, and the remote
\* display registry is not empty.
C16_EventuallyPaired == <>Discovered

\* C16 happens: the peers are paired and the dial task has returned.
C16_Witness ==
    /\ Discovered
    /\ conns = 1 /\ finishing = 0
    /\ IS_CONNECTED /\ CONNECTED_TO = PeerIp

\* C17: at most one connection made by connect_to_server is open at a time,
\* for every interleaving of beacon receptions with the spawned dial tasks.
C17_OneOutbound == Cardinality(outOpen) <= 1

\* C18: set_screen_layout with a string that is none of left, right, top,
\* bottom returns an error and leaves REMOTE_EDGE as it was; with a valid edge
\* e it returns Ok and get_screen_layout then returns e; REMOTE_EDGE is always
\* one of the four edges.
C18_LayoutValidated ==
    /\ [](REMOTE_EDGE \in ValidEdges)
    /\ [][\A e \in EdgeArgs :
            SetScreenLayout(e) =>
                IF e \in ValidEdges
                THEN layout_call'.result = "Ok" /\ GetScreenLayout' = e
                ELSE layout_call'.result = "Err" /\ REMOTE_EDGE' = REMOTE_EDGE]_vars

\* An invalid string was rejected after the edge had been moved off its
\* default, and the edge is still the one set before.
C18_Witness ==
    /\ layout_call = [arg |-> "diagonal", result |-> "Err"]
    /\ REMOTE_EDGE = "top"

\* A sender is at writer.lock().await on mutex m and the mutex is taken.
SenderWaits(m) ==
    /\ SendMutex = m
    /\ locks[m] # "free"
    /\ \/ gui = "wait"
       \/ pc = "send" /\ pend.writer # 0

\* The reader of the accepted session is at client.lock().await on mutex m
\* (before its read, or before its pong) and the mutex is taken by another.
ReaderWaits(m) ==
    /\ m = "client"
    /\ inbound > 0
    /\ locks[m] \notin { "free", "in_reader" }
    /\ \/ in_pending = << >>
       \/ in_pending # << >> /\ FromStr(Head(in_pending)) = Ping

\* The reader of the accepted session is inside stream.read with nothing to
\* read, holding the stream's mutex.
ReaderBlocked ==
    /\ locks["client"] = "in_reader"
    /\ wire["in"] = << >>

\* C20: a send (by the control loop or by send_layout_sync) never waits on a
\* mutex held by a reader, and a reader never waits on a mutex held by a
\* sender; the mutexes of the two sides are different ones.
C20_NoLockWait ==
    \A m \in Mutexes :
        /\ ~(SenderWaits(m) /\ locks[m] = "in_reader")
        /\ ~(ReaderWaits(m) /\ locks[m] \in { "loop", "gui" })
        /\ locks[m] = "in_reader" => m = "client"
        /\ locks[m] \in { "loop", "gui" } => m = "write_half"

\* The control loop waits for the write half's mutex, which send_layout_sync
\* holds, while the reader is blocked in its read holding the stream's mutex.
C20_Witness ==
    /\ ReaderBlocked
    /\ gui = "write"
    /\ pc = "send" /\ pend.writer # 0
    /\ SenderWaits("write_half")

\* The task holding a mutex is suspended at an await: the reader inside
\* stream.read with no byte to take, send_layout_sync inside write_all.
HolderSuspended(m) ==
    \/ locks[m] = "in_reader" /\ wire["in"] = << >>
    \/ locks[m] = "gui" /\ gui = "write"

\* C21: no task holds a mutex while it is suspended at an await (a TCP read, a
\* TCP write): every mutex is free whenever its last holder waits for I/O.
C21_NoLockAcrossAwait == \A m \in Mutexes : ~HolderSuspended(m)

\* The control cells.
ctlcells == << CONTROL_ACTIVE, BEING_CONTROLLED, EDGE_LOCK_POS, REMOTE_MOUSE_POS,
               CONTROL_START_TIME >>

\* C23: a received mouse_move moves the pointer only when BEING_CONTROLLED is
\* true as it is handled; otherwise it changes neither the pointer nor a
\* control cell.  In both handlers.
C23_MoveOnlyWhenControlled ==
    [][\A msg \in RecvMessages :
          (msg.type = "mouse_move" /\ (InboundRecv(msg) \/ OutboundRecv(msg))) =>
              IF BEING_CONTROLLED
              THEN /\ move_arg' = << msg.x, msg.y >>
                   /\ cursor' = move_mouse(<< msg.x, msg.y >>)
                   /\ ctlcells' = ctlcells
              ELSE /\ move_arg' = move_arg
                   /\ cursor' = cursor
                   /\ ctlcells' = ctlcells]_vars

\* C23 happens: on accepted sessions only, a mouse_move has moved the pointer
\* of the controlled peer to a point no control_start leaves unclamped.
C23_Witness ==
    /\ BEING_CONTROLLED
    /\ outOpen = {} /\ inbound > 0
    /\ move_arg = << 5000, 5000 >>

\* (x, y) clamped to the union of the local screens, as the claim words it.
C24_Clamped(x, y) ==
    << IF x < MinX(LocalScreens) THEN MinX(LocalScreens)
       ELSE IF x > MaxX(LocalScreens) - 1 THEN MaxX(LocalScreens) - 1 ELSE x,
       IF y < MinY(LocalScreens) THEN MinY(LocalScreens)
       ELSE IF y > MaxY(LocalScreens) - 1 THEN MaxY(LocalScreens) - 1 ELSE y >>

\* C24: a control_start{x, y} received on any session sets BEING_CONTROLLED and
\* moves the pointer to (x, y) clamped to the union of the local screens;
\* move_mouse is never called with the unclamped point.
C24_ControlStartClamped ==
    [][\A msg \in RecvMessages :
          (msg.type = "control_start" /\ (InboundRecv(msg) \/ OutboundRecv(msg))) =>
              /\ BEING_CONTROLLED'
              /\ move_arg' = C24_Clamped(msg.x, msg.y)]_vars

\* C25: every absolute move of the pointer, of the control loop (the pin to
\* the edge lock, the move after a return) and of the handlers (control_start,
\* mouse_move), has its target inside a rectangle of a local display.
C25_MovesOnDisplay ==
    /\ move_arg # << >> => InSomeScreen(move_arg, LocalScreens)
    /\ \A i \in DOMAIN pend.moves : InSomeScreen(pend.moves[i], LocalScreens)

\* The entries of a registry that sender `name` owns (own = TRUE), or the
\* other ones.
EntriesOf(registry, name, own) ==
    SelectSeq(registry, LAMBDA s : (s.computer_name = name) = own)

\* C26: handling hello{name N, screens S} leaves the registry with the earlier
\* entries of the other senders, unchanged and in their order, followed by
\* exactly S for N; no control cell changes.
C26_HelloReplaces ==
    [][\A msg \in RecvHellos :
          (InboundRecv(msg) \/ OutboundRecv(msg)) =>
              /\ Rects(EntriesOf(REMOTE_SCREENS', msg.name, TRUE)) = msg.screens
              /\ EntriesOf(REMOTE_SCREENS', msg.name, FALSE)
                    = EntriesOf(REMOTE_SCREENS, msg.name, FALSE)
              /\ REMOTE_SCREENS' = EntriesOf(REMOTE_SCREENS, msg.name, FALSE)
                                      \o EntriesOf(REMOTE_SCREENS', msg.name, TRUE)
              /\ ctlcells' = ctlcells
              /\ cursor' = cursor]_vars

\* C26 happens: the registry holds the two displays of one sender followed by
\* the single display of the other, while the peer is being controlled.
C26_Witness ==
    /\ Len(REMOTE_SCREENS) = 3
    /\ REMOTE_SCREENS[1].computer_name = "C" /\ REMOTE_SCREENS[2].computer_name = "C"
    /\ REMOTE_SCREENS[3].computer_name = PeerName
    /\ BEING_CONTROLLED

\* A session with the other peer exists: an accepted or a dialed connection
\* whose reader still runs.
InSession == inbound > 0 \/ outOpen # {}

\* (mx, my) is within the threshold of the named edge of the local desktop.
C27_AtEdge(edge, mx, my) ==
    CASE edge = "right" -> mx >= MaxX(LocalScreens) - 10
      [] edge = "left" -> mx <= MinX(LocalScreens) + 10
      [] edge = "top" -> my <= MinY(LocalScreens) + 10
      [] edge = "bottom" -> my >= MaxY(LocalScreens) - 10

\* C27: the control loop sets CONTROL_ACTIVE and prepares control_start only in
\* a tick in which the peer is in a session, the phase the loop sampled is
\* idle, the remote display registry is not empty and the sampled pointer is
\* within 10 px of the edge REMOTE_EDGE names; no other edge starts a transfer.
C27_ArmedEdgeOnly ==
    [][((~CONTROL_ACTIVE /\ CONTROL_ACTIVE') \/ (pc = "snap" /\ pend'.msg = "control_start")) =>
          /\ pc = "snap"
          /\ InSession
          /\ ~snap.control_active /\ ~snap.being_controlled
          /\ REMOTE_SCREENS # << >>
          /\ C27_AtEdge(REMOTE_EDGE, snap.mx, snap.my)]_vars

\* C28: with REMOTE_EDGE top (bottom), a tick of the delta capture after the
\* cooldown whose advanced remote y is above remote_max_y (below remote_min_y)
\* clears CONTROL_ACTIVE and prepares control_end, and a tick whose remote y
\* does not pass that edge returns nothing, whatever its motion along x.
C28_VerticalReturn ==
    [][(/\ pc = "snap" /\ pc' \in { "send", "sleep" }
        /\ snap.is_connected /\ ~snap.being_controlled /\ snap.control_active
        /\ REMOTE_EDGE \in { "top", "bottom" }
        /\ now - CONTROL_START_TIME > CooldownMs
        /\ << snap.mx, snap.my >> # EDGE_LOCK_POS) =>
          LET new_y == REMOTE_MOUSE_POS[2] + C11_Scaled(snap.my - EDGE_LOCK_POS[2])
              passes == IF REMOTE_EDGE = "top" THEN new_y > MaxY(REMOTE_SCREENS)
                        ELSE new_y < MinY(REMOTE_SCREENS)
          IN  IF passes
              THEN ~CONTROL_ACTIVE' /\ pend'.msg = "control_end"
              ELSE CONTROL_ACTIVE' = CONTROL_ACTIVE /\ pend'.msg # "control_end"]_vars

\* C29: while BEING_CONTROLLED is true no step of the control loop prepares a
\* control_start or a mouse_move or changes CONTROL_ACTIVE, EDGE_LOCK_POS or
\* REMOTE_MOUSE_POS, whenever the loop took its snapshot.
C29_QuietWhileControlled ==
    [][(BEING_CONTROLLED /\ pc = "snap" /\ pc' # "snap") =>
          /\ pend'.msg \notin { "control_start", "mouse_move" }
          /\ CONTROL_ACTIVE' = CONTROL_ACTIVE
          /\ EDGE_LOCK_POS' = EDGE_LOCK_POS
          /\ REMOTE_MOUSE_POS' = REMOTE_MOUSE_POS]_vars

\* C30: send_key_to_remote and send_click_to_remote write a key_event and a
\* mouse_click on the write channel when called while the peer controls the
\* remote, and write nothing when called while it is idle.
C30_InputForwarded ==
    [][(send_key_to_remote \/ send_click_to_remote) =>
          /\ CONTROL_ACTIVE =>
                input_call'.wrote = (IF input_call'.fn = "send_key_to_remote"
                                     THEN "key_event" ELSE "mouse_click")
          /\ (~CONTROL_ACTIVE /\ ~BEING_CONTROLLED) => input_call'.wrote = "nothing"]_vars

\* C22: of two peers, never both are controlling the other (CONTROL_ACTIVE of
\* both true), also when both pointers reach their armed edges in the same
\* interval and the two control_start lines cross on the network.
C22_OneController == ~(CONTROL_ACTIVE /\ peer.control_active)

\* C31: in the stream of lines the peer writes, every key_event and every
\* mouse_click lies between a control_start and the control_end that follows
\* it: when a key or click line is written, the last control line written
\* before it is a control_start.
C31_InputInsideControl == [][InputWrite => last_ctl = "control_start"]_vars

\* C32: the local cursor is hidden exactly while the peer controls the remote:
\* some hide_cursor call is unmatched by a show_cursor when, and only when,
\* CONTROL_ACTIVE is set.  No step of the program calls hide_cursor or
\* show_cursor, so hide_count stays where it started.
C32_HiddenWhileControlling == (hide_count > 0) <=> CONTROL_ACTIVE

\* C33: an accept leaves the write endpoint as it is, whether a dial has
\* succeeded before or not, and the write endpoint changes only in the step
\* of a dial task that has connected.
C33_AcceptKeepsWriteEnd ==
    [][/\ Accept => WRITE_STREAM' = WRITE_STREAM
       /\ WRITE_STREAM' # WRITE_STREAM =>
             \E t \in DialTargets : ConnectDone(t) \/ HelloFail(t)]_vars

\* A dial has succeeded and the accept of a later inbound connection has left
\* the write endpoint in place: ACTIVE_CLIENT is still empty, as only an
\* accept that finds IS_OUTGOING_CONNECTION set leaves it.
C33_Witness == WRITE_STREAM # 0 /\ outOpen # {} /\ inbound > 0 /\ ~ACTIVE_CLIENT

\* C34: a dial that fails, at the connect, at the write of hello or at a later
\* step of connect_to_server, leaves the peer without a write endpoint (so
\* that the next beacon dials again).  The failing dial is taken where it is
\* the only one that has connected, so that an endpoint left behind is its own.
C34_FailedDialClearsWriteEnd ==
    [][/\ (conns = 0 /\ \E t \in DialTargets : DialFail(t) \/ HelloFail(t))
            => WRITE_STREAM' = 0
       /\ (conns = 1 /\ DialLateFail) => WRITE_STREAM' = 0]_vars

\* C35: when the read loop of the last dialed session ends, the write endpoint
\* is cleared, and while the other peer's beacons keep arriving a new dialed
\* session is eventually there.
C35_SessionReestablished ==
    /\ [][(outOpen # {} /\ outOpen' = {}) => WRITE_STREAM' = 0]_vars
    /\ [](conns > 0 /\ outOpen = {} => <>(outOpen # {}))

\* The beacons the listener accepts: MAGIC in front, four fields or more, and
\* an ip that is not this host's.
AcceptedBeacons ==
    { d \in Datagrams : Len(d) >= 4 /\ d[1] = DISCOVERY_MAGIC /\ d[3] # LocalIp }

\* C36: the peer registry holds at most one entry per ip; an accepted beacon
\* whose ip is registered changes nothing but the last_seen of that entry, one
\* whose ip is new adds exactly one entry, at the end, and leaves the others.
C36_OneEntryPerIp ==
    /\ [](\A i, j \in DOMAIN DISCOVERED_PEERS :
            DISCOVERED_PEERS[i].ip = DISCOVERED_PEERS[j].ip => i = j)
    /\ [][\A d \in AcceptedBeacons : UdpRecv(d) =>
            LET peers == DISCOVERED_PEERS
                after == DISCOVERED_PEERS'
            IN  IF \E i \in DOMAIN peers : peers[i].ip = d[3]
                THEN /\ Len(after) = Len(peers)
                     /\ \A i \in DOMAIN peers :
                           after[i] = IF peers[i].ip = d[3]
                                      THEN [peers[i] EXCEPT !.last_seen = now \div 1000]
                                      ELSE peers[i]
                ELSE /\ Len(after) = Len(peers) + 1
                     /\ SubSeq(after, 1, Len(peers)) = peers
                     /\ after[Len(after)] = [name |-> d[2], ip |-> d[3],
                                              computer_type |-> d[4],
                                              last_seen |-> now \div 1000]]_vars

\* Two peers are registered and the one registered first was seen last: its
\* beacon came again and refreshed its entry.
C36_Witness ==
    /\ Len(DISCOVERED_PEERS) = 2
    /\ DISCOVERED_PEERS[1].last_seen > DISCOVERED_PEERS[2].last_seen

\* The datagrams that do not start with MAGIC or have fewer than 4 fields.
Malformed == { d \in Datagrams : Len(d) < 4 \/ d[1] # DISCOVERY_MAGIC }

\* C37: a datagram that does not start with the MAGIC tag, or has fewer than
\* 4 fields, is rejected: the turn of the listener that receives it changes
\* neither the peer registry nor any cell of the connection state, starts no
\* dial, and leaves the listener in its receive loop.
C37_MalformedRejected ==
    [][\A d \in Malformed : UdpRecv(d) =>
          /\ UNCHANGED << DISCOVERED_PEERS, cellvars, dialing, finishing, conns,
                          inbound, outOpen >>
          /\ udp_task' = "recv"]_vars

\* A malformed datagram was the last one received: the listener is in its
\* receive loop, the registry is empty and no dial has been spawned.
C37_Witness ==
    /\ udp_buffer \in Malformed
    /\ udp_task = "recv"
    /\ DISCOVERED_PEERS = << >>
    /\ InFlight = 0 /\ conns = 0

\* C38: a peer whose user does not touch the mouse never enters
\* CONTROLLING_REMOTE: after control_end is handled, the place where the
\* controlling peer left the pointer does not make the control loop take
\* control (set CONTROL_ACTIVE and send control_start).
C38_NoReverseTransfer == [][~(~CONTROL_ACTIVE /\ CONTROL_ACTIVE')]_vars

\* C39: a peer that is BEING_CONTROLLED when no session is open any more (the
\* controller's connection reached EOF and no control_end had come) eventually
\* leaves that phase.
C39_OrphanReleased ==
    [](BEING_CONTROLLED /\ inbound = 0 /\ outOpen = {} => <>~BEING_CONTROLLED)

\* C40: the connection status reported to the GUI is accurate: is_connected
\* is true only while a TCP session with the peer, accepted or dialed, is open.
C40_StatusAccurate ==
    get_connection_status.is_connected => (inbound > 0 \/ outOpen # {})

====
